---- MODULE Spec2Model ----
(***************************************************************************)
(* A model of the OpenRXN compilation and simulation kernel:               *)
(*   - State index construction          (systems/state.py)                *)
(*   - Gillespie process table + propagator                                *)
(*                       (systems/GillespieSystem.py, propagators.py)      *)
(*   - ODE derivative term builder       (systems/ODESystem.py)            *)
(*   - Model.flatten and Ficks resolution (model.py, connections.py)       *)
(*   - the checkpointed run loop         (systems/system.py, reporters.py) *)
(*                                                                         *)
(* Python lists and insertion-ordered dicts are sequences.  State-vector   *)
(* positions and process indices are 0-based as in the code; position i of *)
(* a numpy array is element i+1 of the sequence that models it.            *)
(* Dimensioned quantities (pint) are records [num, den, ldim]: the         *)
(* magnitude num/den, the exponents of length (ldim) and of amount of      *)
(* substance (mdim) in the unit, and the power of Avogadro's number NA in   *)
(* the denominator (napow); the exponent of time is -1 for every rate and  *)
(* is left out.  Magnitudes are in nm, s and mol, so that a unit conversion *)
(* that succeeds keeps the magnitude.                                      *)
(***************************************************************************)
EXTENDS Integers, Sequences, FiniteSets, TLC

VARIABLES
    flat,       \* FlatModel.compartments: sequence of compartment records
    state,      \* the System's State object (index, species, compartment, q_val)
    gsys,       \* GillespieSystem tables: processes, process_update_list
    gil,        \* the frame of one call of propagators.Gillespie
    osys,       \* ODESystem: the source/sink lists and the dqdt builders
    run,        \* the frame of one call of System.run, with the reporters
    model,      \* the Model under flatten(): its arrays and compartments
    heap,       \* the connection objects that the compartments refer to
    fl,         \* the frame of one call of Model.flatten, with the FlatModel
    rep,        \* a Reporter, with the state vectors it is handed
    obj         \* an object under construction or under a method call

vars == <<flat, state, gsys, gil, osys, run, model, heap, fl, rep, obj>>

(***************************************************************************)
(* Generic helpers                                                         *)
(***************************************************************************)
Range(s) == { s[i] : i \in DOMAIN s }

RECURSIVE SumSeq(_)
SumSeq(s) == IF s = <<>> THEN 0 ELSE s[1] + SumSeq(Tail(s))

RECURSIVE Flatten(_)
Flatten(ss) == IF ss = <<>> THEN <<>> ELSE ss[1] \o Flatten(Tail(ss))

Repeat(x, n) == [i \in 1..n |-> x]

\* all orders in which a finite set can be iterated
Orderings(S) ==
    { f \in [1..Cardinality(S) -> S] : \A i, j \in 1..Cardinality(S) : f[i] = f[j] => i = j }

PosIn(seq, x) == CHOOSE i \in DOMAIN seq : seq[i] = x

RECURSIVE Pow(_, _)
Pow(b, e) == IF e = 0 THEN 1 ELSE b * Pow(b, e - 1)

(***************************************************************************)
(* Quantities                                                              *)
(***************************************************************************)
Qty(n, d, L, M, na) == [num |-> n, den |-> d, ldim |-> L, mdim |-> M, napow |-> na]

\* equality of two magnitudes num/den as rationals, and of two quantities
\* with their powers of NA
RatEq(a, b) == a.num * b.den = b.num * a.den
SameMag(a, b) == RatEq(a, b) /\ a.napow = b.napow

NoODE == [built |-> FALSE, error |-> ""]
NoReporter == [pc |-> "none"]
NoObject == [pc |-> "none"]

\* compartment volume: None, or a magnitude with a length exponent
NoVolume == [known |-> FALSE, mag |-> 0, ldim |-> 0]
Volume(m, L) == [known |-> TRUE, mag |-> m, ldim |-> L]

(***************************************************************************)
(* Reactions, connections and compartments of a FlatModel                  *)
(***************************************************************************)
AllSpecies == {"A", "B"}

\* reactions.py Reaction: kf, kr are magnitudes; udim = <<ldim, mdim>> is the
\* unit the author gave both rates (Reaction.__init__ stores them as given)
Rxn(id, reactants, stoich_r, products, stoich_p, kf, kr, udim) ==
    [ID |-> id, reactants |-> reactants, stoich_r |-> stoich_r,
     products |-> products, stoich_p |-> stoich_p, kf |-> kf, kr |-> kr,
     udim |-> udim]

\* Reaction.reactant_IDs / product_IDs (the species are named by their IDs)
reactant_IDs(rxn) == rxn.reactants
product_IDs(rxn) == rxn.products

\* rates in 1/s; the dimerisation also with a rate in nm/s (1D, as in
\* examples/1D_reac_diff_AB.py) and in nm^3/(mol s)
RxnDeg    == Rxn("deg",   <<"A">>, <<1>>, <<>>,    <<>>,  1, 0, <<0, 0>>)
RxnDimer  == Rxn("dimer", <<"A">>, <<2>>, <<"B">>, <<1>>, 1, 0, <<0, 0>>)
RxnDimerL == Rxn("dimer", <<"A">>, <<2>>, <<"B">>, <<1>>, 1, 0, <<1, 0>>)
RxnDimerM == Rxn("dimer", <<"A">>, <<2>>, <<"B">>, <<1>>, 1, 0, <<3, 0 - 1>>)
RxnRev    == Rxn("rev",   <<"A">>, <<1>>, <<"B">>, <<1>>, 1, 2, <<0, 0>>)
RxnBirth  == Rxn("birth", <<>>,    <<>>,  <<"A">>, <<1>>, 1, 0, <<0, 0>>)

\* reactions whose reactant and product lists are identical
RxnNullA  == Rxn("nullA",  <<"A">>, <<1>>, <<"A">>, <<1>>, 1, 2, <<0, 0>>)
RxnNullF  == Rxn("nullF",  <<"A">>, <<1>>, <<"A">>, <<1>>, 1, 0, <<0, 0>>)
RxnNullR  == Rxn("nullR",  <<"A">>, <<1>>, <<"A">>, <<1>>, 0, 1, <<0, 0>>)
RxnNull2A == Rxn("null2A", <<"A">>, <<2>>, <<"A">>, <<2>>, 1, 2, <<3, 0 - 1>>)
RxnNullAB == Rxn("nullAB", <<"A", "B">>, <<1, 2>>, <<"A", "B">>, <<1, 2>>, 2, 1, <<0, 0>>)
NullRxns == { RxnNullA, RxnNullF, RxnNullR, RxnNull2A, RxnNullAB }

RxnLists == { <<>>, <<RxnDeg>>, <<RxnDimer>>, <<RxnRev>>, <<RxnBirth, RxnDeg>> }

\* connections.py: a resolved connection carries species_rates, a dict
\* species -> (k_out, k_in) (keys: its keys in insertion order); rates of a
\* DivByVConnection are in nm^dim/s, those of an AnisotropicConnection in 1/s.
Conn(type, keys, species_rates, dim) ==
    [type |-> type, keys |-> keys, species_rates |-> species_rates, dim |-> dim]

\* the unit exponent of length that the constructor gives the stored rates
RateLdim(conn) == IF conn.type = "DivByV" THEN conn.dim ELSE 0

ConnAnisoA == Conn("Anisotropic", <<"A">>, [s \in {"A"} |-> <<1, 2>>], 3)
ConnAnisoB == Conn("Anisotropic", <<"B">>, [s \in {"B"} |-> <<2, 2>>], 3)
ConnDivA   == Conn("DivByV",      <<"A">>, [s \in {"A"} |-> <<2, 2>>], 1)
ConnDivAB  == Conn("DivByV",      <<"A", "B">>, [s \in {"A", "B"} |-> <<4, 4>>], 1)

ConnDivA3  == Conn("DivByV",      <<"A">>, [s \in {"A"} |-> <<2, 2>>], 3)

ConnCatalogue == { ConnAnisoA, ConnAnisoB, ConnDivA, ConnDivAB }

\* compartment.py Compartment as held by a FlatModel; connections is the
\* dict label -> (other_compartment, conn) in insertion order; the other
\* compartment is named by its label
Comp(id, volume, reactions, connections) ==
    [ID |-> id, kind |-> "Compartment", volume |-> volume,
     reactions |-> reactions, connections |-> connections]

\* compartment.py Reservoir: conc_funcs by its keys; Reservoir.copy keeps
\* neither reactions nor connections nor a volume
Reservoir(id, keys) ==
    [ID |-> id, kind |-> "Reservoir", volume |-> NoVolume,
     reactions |-> <<>>, connections |-> <<>>, conc_funcs |-> keys]

Edge(label, conn) == [label |-> label, conn |-> conn]

Volumes == { NoVolume, Volume(2, 0), Volume(2, 1) }
Topologies == { "none", "both", "oneway" }

\* a two-compartment FlatModel: FlatModel.add_compartment keys each copy by
\* its own (new) ID
MkFlat(rl1, rl2, v1, v2, topo, conn) ==
    << Comp("c1", v1, rl1, IF topo = "none" THEN <<>> ELSE << Edge("c2", conn) >>),
       Comp("c2", v2, rl2, IF topo = "both" THEN << Edge("c1", conn) >> ELSE <<>>) >>

FlatModels ==
    { MkFlat(rl1, rl2, v1, v2, "none", ConnAnisoA) :
          rl1 \in RxnLists, rl2 \in RxnLists, v1 \in Volumes, v2 \in Volumes }
    \cup
    { MkFlat(rl1, rl2, v1, v2, topo, conn) :
          rl1 \in RxnLists, rl2 \in RxnLists, v1 \in Volumes, v2 \in Volumes,
          topo \in {"both", "oneway"}, conn \in ConnCatalogue }

FlatTags(fm) == { fm[k].ID : k \in DOMAIN fm }
CompOf(fm, tag) == fm[CHOOSE k \in DOMAIN fm : fm[k].ID = tag]

(***************************************************************************)
(* State (systems/state.py)                                                *)
(***************************************************************************)
NoState == [built |-> FALSE]

\* mutant: the products of the reactions are left out
SpecListNoProducts(c) ==
    Flatten([k \in DOMAIN c.connections |-> c.connections[k].conn.keys])
    \o Flatten([k \in DOMAIN c.reactions |-> reactant_IDs(c.reactions[k])])

\* spec: the species lists of the connections, then reactants and products of
\* every reaction, concatenated
SpecList(c) ==
    Flatten([k \in DOMAIN c.connections |-> c.connections[k].conn.keys])
    \o Flatten([k \in DOMAIN c.reactions |->
                 reactant_IDs(c.reactions[k]) \o product_IDs(c.reactions[k])])

spec_set(c) == Range(SpecList(c))

\* the iteration orders a Python set of species can have, one per compartment
SetOrders(fm) ==
    { ords \in [DOMAIN fm -> UNION { Orderings(S) : S \in SUBSET AllSpecies }] :
          \A k \in DOMAIN fm : ords[k] \in Orderings(spec_set(fm[k])) }

\* running_index when compartment k is reached
RunningIndex(ords, k) == SumSeq([j \in 1..(k - 1) |-> Len(ords[j])])

\* State._init_from_model, then size and q_val of State.__init__
InitFromModel(fm, ords) ==
    LET index == [tag \in FlatTags(fm) |->
                    LET k == CHOOSE j \in DOMAIN fm : fm[j].ID = tag
                    IN  [s \in Range(ords[k]) |->
                            RunningIndex(ords, k) + (PosIn(ords[k], s) - 1)]]
        big_species_list == Flatten([k \in DOMAIN fm |-> ords[k]])
        big_comp_list == Flatten([k \in DOMAIN fm |-> Repeat(fm[k].ID, Len(ords[k]))])
    IN  [built |-> TRUE,
         index |-> index,
         species |-> big_species_list,
         compartment |-> big_comp_list,
         size |-> Len(big_comp_list),
         q_val |-> Repeat(0, Len(big_comp_list))]

\* State(model=flat): the constructor
NewState ==
    /\ state = NoState
    /\ \E ords \in SetOrders(flat) : state' = InitFromModel(flat, ords)
    /\ UNCHANGED <<flat, gsys, gil, osys, run, model, heap, fl, rep, obj>>

\* GillespieSystem.set_q(idxs, Q) with a dimensionless Q
SetQ(idxs, Q) ==
    [state EXCEPT !.q_val = [i \in 1..state.size |->
                                IF (i - 1) \in idxs THEN Q ELSE state.q_val[i]]]

(***************************************************************************)
(* Gillespie process table (systems/GillespieSystem.py)                    *)
(***************************************************************************)
NoSys == [built |-> FALSE, error |-> "", qset |-> FALSE]

\* _cast_rate: rate.ito(1/sec) succeeds only for a rate in 1/time; the
\* magnitude is kept
CastOk(q) == q.ldim = 0 /\ q.mdim = 0
cast_rate(q) == [num |-> q.num, den |-> q.den]

Process(rate, q_list, delta_list) ==
    [rate |-> rate, q_list |-> q_list, delta_list |-> delta_list]

\* n_r and vol_fac of one side of a reaction in compartment c
Order(stoich) == SumSeq(stoich)
VolFacApplies(c, stoich) == c.volume.known /\ Order(stoich) - 1 > 0
RxnRate(c, k, udim, stoich) ==
    IF VolFacApplies(c, stoich)
    THEN Qty(k, Pow(c.volume.mag, Order(stoich) - 1),
             udim[1] - c.volume.ldim * (Order(stoich) - 1), udim[2], 0)
    ELSE Qty(k, 1, udim[1], udim[2], 0)

\* the forward process of reaction r in compartment c (lines 79-96)
ForwardProcess(c, r, index) ==
    Process(cast_rate(RxnRate(c, r.kf, r.udim, r.stoich_r)),
            [j \in DOMAIN r.reactants |-> <<index[c.ID][r.reactants[j]], r.stoich_r[j]>>],
            [j \in DOMAIN r.reactants |-> <<index[c.ID][r.reactants[j]], 0 - r.stoich_r[j]>>]
            \o [j \in DOMAIN r.products |-> <<index[c.ID][r.products[j]], r.stoich_p[j]>>])

\* the reverse process of reaction r in compartment c (lines 98-114)
ReverseProcess(c, r, index) ==
    Process(cast_rate(RxnRate(c, r.kr, r.udim, r.stoich_p)),
            [j \in DOMAIN r.products |-> <<index[c.ID][r.products[j]], r.stoich_p[j]>>],
            [j \in DOMAIN r.reactants |-> <<index[c.ID][r.reactants[j]], r.stoich_r[j]>>]
            \o [j \in DOMAIN r.products |-> <<index[c.ID][r.products[j]], 0 - r.stoich_p[j]>>])

\* the rate handed to _cast_rate for species s on an outgoing edge (line 122)
DiffusionRate(c, conn, s) ==
    Qty(conn.species_rates[s][1], c.volume.mag, RateLdim(conn) - c.volume.ldim, 0, 0)

\* mutant: the molecule leaves c and arrives nowhere
DiffusionProcessNoArrival(c, edge, s, index) ==
    Process(cast_rate(DiffusionRate(c, edge.conn, s)),
            << <<index[c.ID][s], 1>> >>,
            << <<index[c.ID][s], 0 - 1>> >>)

\* the "out" diffusion process of species s over one edge of c (lines 122-124)
DiffusionProcess(c, edge, s, index) ==
    Process(cast_rate(DiffusionRate(c, edge.conn, s)),
            << <<index[c.ID][s], 1>> >>,
            << <<index[c.ID][s], 0 - 1>>, <<index[edge.label][s], 1>> >>)

\* what stops _build_processes with an exception: a missing volume under a
\* division (TypeError), a species that has no position in the neighbour
\* (KeyError), a rate that _cast_rate cannot bring to 1/time
\* (pint DimensionalityError)
BuildFails(fm, index) ==
    \/ \E k \in DOMAIN fm : \E e \in DOMAIN fm[k].connections :
         \E s \in Range(fm[k].connections[e].conn.keys) :
           \/ ~fm[k].volume.known
           \/ s \notin DOMAIN index[fm[k].connections[e].label]
           \/ ~CastOk(DiffusionRate(fm[k], fm[k].connections[e].conn, s))
    \/ \E k \in DOMAIN fm : \E j \in DOMAIN fm[k].reactions :
         LET r == fm[k].reactions[j]
         IN  \/ r.kf > 0 /\ ~CastOk(RxnRate(fm[k], r.kf, r.udim, r.stoich_r))
             \/ r.kr > 0 /\ ~CastOk(RxnRate(fm[k], r.kr, r.udim, r.stoich_p))

\* the processes of one compartment: its reactions, then its edges
CompProcesses(c, index) ==
    Flatten([j \in DOMAIN c.reactions |->
                LET r == c.reactions[j]
                IN  (IF r.kf > 0 THEN <<ForwardProcess(c, r, index)>> ELSE <<>>)
                    \o (IF r.kr > 0 THEN <<ReverseProcess(c, r, index)>> ELSE <<>>)])
    \o Flatten([e \in DOMAIN c.connections |->
                LET edge == c.connections[e]
                IN  [n \in DOMAIN edge.conn.keys |->
                        DiffusionProcess(c, edge, edge.conn.keys[n], index)]])

Processes(fm, index) == Flatten([k \in DOMAIN fm |-> CompProcesses(fm[k], index)])

\* mutant: position ID lists the processes whose q_list has an entry for it
ProcessUpdateListFromQ(processes, size) ==
    [pos \in 1..size |->
        Flatten([i \in DOMAIN processes |->
            Flatten([d \in DOMAIN processes[i].q_list |->
                IF processes[i].q_list[d][1] = pos - 1 THEN <<i - 1>> ELSE <<>>])])]

\* process_update_list (lines 132-135): position ID lists process i once for
\* every entry (ID, delta) of the process's delta_list
ProcessUpdateList(processes, size) ==
    [pos \in 1..size |->
        Flatten([i \in DOMAIN processes |->
            Flatten([d \in DOMAIN processes[i].delta_list |->
                IF processes[i].delta_list[d][1] = pos - 1 THEN <<i - 1>> ELSE <<>>])])]

\* GillespieSystem._build_processes
BuildProcesses(fm, st) ==
    IF BuildFails(fm, st.index)
    THEN [built |-> FALSE, error |-> "raised", qset |-> FALSE]
    ELSE [built |-> TRUE, error |-> "", qset |-> FALSE,
          processes |-> Processes(fm, st.index),
          process_update_list |->
              ProcessUpdateList(Processes(fm, st.index), st.size)]

(***************************************************************************)
(* The Gillespie propagator (propagators.py)                               *)
(***************************************************************************)
MaxQ0 == 2         \* largest count set_q writes
MaxQ == 3          \* cap on a count (births are unbounded in the code)
MaxDwell == 2      \* largest dwell time of one firing, in ticks
SegLen == 2        \* length of one propagated interval, in ticks
MaxSegments == 2   \* intervals propagated in one run

\* mutant: the factor of an entry is y[idx]**num
PowerFactor(yv, num) == Pow(yv, num)

\* the factor of one (idx, num) entry: prod_{j < num} max(0, y[idx] - j)
RECURSIVE FallingFactor(_, _)
FallingFactor(yv, num) ==
    IF num = 0 THEN 1
    ELSE FallingFactor(yv, num - 1) * (IF yv - (num - 1) > 0 THEN yv - (num - 1) ELSE 0)

RECURSIVE QProduct(_, _)
QProduct(q_list, y) ==
    IF q_list = <<>> THEN 1
    ELSE FallingFactor(y[q_list[1][1] + 1], q_list[1][2]) * QProduct(Tail(q_list), y)

\* r[i] of one process (lines 43-47 and 70-74): rate times the products
Propensity(p, y) == [num |-> p.rate.num * QProduct(p.q_list, y), den |-> p.rate.den]

\* the vector r built before the loop (lines 41-47)
AllPropensities(processes, y) == [i \in DOMAIN processes |-> Propensity(processes[i], y)]

\* r.sum() = 0: no entry is negative, so the sum is 0 iff every entry is
RSumZero(r) == \A i \in DOMAIN r : r[i].num = 0

\* y[idx] += d for every entry of a delta_list, in order (lines 60-61)
RECURSIVE ApplyDeltas(_, _)
ApplyDeltas(y, delta_list) ==
    IF delta_list = <<>> THEN y
    ELSE ApplyDeltas([y EXCEPT ![delta_list[1][1] + 1] = @ + delta_list[1][2]],
                     Tail(delta_list))

\* mutant: to_update keeps only the list of the last touched position
ToUpdateLastOnly(update_list, delta_list) ==
    IF delta_list = <<>> THEN {}
    ELSE Range(update_list[delta_list[Len(delta_list)][1] + 1])

\* set(to_update): the processes listed by update_list for a touched position
ToUpdate(update_list, delta_list) ==
    UNION { Range(update_list[delta_list[d][1] + 1]) : d \in DOMAIN delta_list }

\* lines 69-74: recompute r[i] for i in set(to_update), keep the others
Refresh(r, processes, to_update, y) ==
    [i \in DOMAIN r |-> IF (i - 1) \in to_update THEN Propensity(processes[i], y) ELSE r[i]]

Idle == [pc |-> "idle", seg |-> 0, fired |-> 0]

\* System.__init__ building its State, then GillespieSystem.__init__
NewGillespieSystem ==
    /\ state = NoState
    /\ gsys = NoSys
    /\ \E ords \in SetOrders(flat) :
         /\ state' = InitFromModel(flat, ords)
         /\ gsys' = BuildProcesses(flat, state')
    /\ UNCHANGED <<flat, gil, osys, run, model, heap, fl, rep, obj>>

\* GillespieSystem.set_q, called once on the zero vector before the run
GSetQ ==
    /\ gsys.built
    /\ gil = Idle
    /\ ~gsys.qset
    /\ \E idxs \in SUBSET (0..(state.size - 1)), Q \in 1..MaxQ0 :
         /\ idxs # {}
         /\ state' = SetQ(idxs, Q)
    /\ gsys' = [gsys EXCEPT !.qset = TRUE]
    /\ UNCHANGED <<flat, gil, osys, run, model, heap, fl, rep, obj>>

\* GillespieSystem.propagate calling Gillespie: lines 35-47
GCall ==
    /\ gsys.built
    /\ gil.pc \in {"idle", "returned"}
    /\ gil.seg < MaxSegments
    /\ gil' = [pc |-> "loop", seg |-> gil.seg + 1, fired |-> 0,
               t0 |-> gil.seg * SegLen, t1 |-> (gil.seg + 1) * SegLen,
               t |-> gil.seg * SegLen,
               y0 |-> state.q_val, y |-> state.q_val,
               r |-> AllPropensities(gsys.processes, state.q_val)]
    /\ UNCHANGED <<flat, state, gsys, osys, run, model, heap, fl, rep, obj>>

\* mutant: a firing whose dwell time reaches the end of the interval only
\* advances the clock
GFireUnlessLast ==
    /\ gil.pc = "loop"
    /\ gil.t < gil.t1
    /\ ~RSumZero(gil.r)
    /\ \E i \in DOMAIN gil.r, dwell \in 1..MaxDwell :
         /\ gil.r[i].num > 0
         /\ LET p == gsys.processes[i]
                y1 == IF gil.t + dwell >= gil.t1 THEN gil.y
                      ELSE ApplyDeltas(gil.y, p.delta_list)
            IN  /\ \A k \in DOMAIN y1 : y1[k] <= MaxQ
                /\ gil' = [gil EXCEPT !.y = y1,
                                      !.t = @ + dwell,
                                      !.r = AllPropensities(gsys.processes, y1),
                                      !.fired = 1]
    /\ UNCHANGED <<flat, state, gsys, osys, run, model, heap, fl, rep, obj>>

\* one pass of the while loop in which np.random.choice has a distribution
\* to draw from (lines 49-74)
GFire ==
    /\ gil.pc = "loop"
    /\ gil.t < gil.t1
    /\ ~RSumZero(gil.r)
    /\ \E i \in DOMAIN gil.r, dwell \in 1..MaxDwell :
         /\ gil.r[i].num > 0
         /\ LET p == gsys.processes[i]
                y1 == ApplyDeltas(gil.y, p.delta_list)
                upd == ToUpdate(gsys.process_update_list, p.delta_list)
            IN  /\ \A k \in DOMAIN y1 : y1[k] <= MaxQ
                /\ gil' = [gil EXCEPT !.y = y1,
                                      !.t = @ + dwell,
                                      !.r = Refresh(gil.r, gsys.processes, upd, y1),
                                      !.fired = 1]
    /\ UNCHANGED <<flat, state, gsys, osys, run, model, heap, fl, rep, obj>>

\* a pass of the loop with r.sum() = 0: oorsum = 1/0.0 is inf, r*oorsum is
\* nan (or the process list is empty), and np.random.choice raises ValueError
GZeroSum ==
    /\ gil.pc = "loop"
    /\ gil.t < gil.t1
    /\ RSumZero(gil.r)
    /\ gil' = [gil EXCEPT !.pc = "raised"]
    /\ UNCHANGED <<flat, state, gsys, osys, run, model, heap, fl, rep, obj>>

\* the loop ends, Gillespie returns (y, t) and propagate stores new_q
GReturn ==
    /\ gil.pc = "loop"
    /\ gil.t >= gil.t1
    /\ gil' = [gil EXCEPT !.pc = "returned"]
    /\ state' = [state EXCEPT !.q_val = gil.y]
    /\ UNCHANGED <<flat, gsys, osys, run, model, heap, fl, rep, obj>>

(***************************************************************************)
(* ODE derivative builders (systems/ODESystem.py, systems/deriv.py)        *)
(***************************************************************************)
\* an entry (rate, q_list, n_per) of the sources and sinks lists; an entry
\* (rate, conc_func, n_per) of sources_reservoir names the function by its key
Term(rate, q_list, n_per) == [rate |-> rate, q_list |-> q_list, n_per |-> n_per]

\* isinstance(x, DivByVConnection): true of a connection object of that
\* class; an item (other_compartment, conn) of c.connections is a tuple
IsInstanceDivByV(x) == "type" \in DOMAIN x /\ x.type = "DivByV"
IsInstanceReservoir(x) == x.kind = "Reservoir"

\* q_list of one side of a reaction: every position repeated stoich times
ODEQList(index, c, ids, stoich) ==
    Flatten([j \in DOMAIN ids |-> Repeat(index[c.ID][ids[j]], stoich[j])])

\* rate of one side of a reaction: k / (NA * volume / mol)^(n - 1)
ODERxnRate(c, k, udim, stoich) ==
    IF VolFacApplies(c, stoich)
    THEN Qty(k, Pow(c.volume.mag, Order(stoich) - 1),
             udim[1] - c.volume.ldim * (Order(stoich) - 1),
             udim[2] + (Order(stoich) - 1), Order(stoich) - 1)
    ELSE Qty(k, 1, udim[1], udim[2], 0)

\* the sinks that reaction r contributes for species s (lines 115-129, 160-172)
RxnSinks(index, c, r, s) ==
    (IF s \in Range(reactant_IDs(r)) /\ r.kf > 0
     THEN << Term(ODERxnRate(c, r.kf, r.udim, r.stoich_r),
                  ODEQList(index, c, reactant_IDs(r), r.stoich_r),
                  r.stoich_r[PosIn(reactant_IDs(r), s)]) >>
     ELSE <<>>)
    \o
    (IF s \in Range(product_IDs(r)) /\ r.kr > 0
     THEN << Term(ODERxnRate(c, r.kr, r.udim, r.stoich_p),
                  ODEQList(index, c, product_IDs(r), r.stoich_p),
                  r.stoich_p[PosIn(product_IDs(r), s)]) >>
     ELSE <<>>)

\* mutant: the reverse reaction is not listed as a source of its reactants
RxnSourcesForwardOnly(index, c, r, s) ==
    IF s \in Range(product_IDs(r)) /\ r.kf > 0
    THEN << Term(ODERxnRate(c, r.kf, r.udim, r.stoich_r),
                 ODEQList(index, c, reactant_IDs(r), r.stoich_r),
                 r.stoich_p[PosIn(product_IDs(r), s)]) >>
    ELSE <<>>

\* the sources that reaction r contributes for species s (lines 130-158)
RxnSources(index, c, r, s) ==
    (IF s \in Range(reactant_IDs(r)) /\ r.kr > 0
     THEN << Term(ODERxnRate(c, r.kr, r.udim, r.stoich_p),
                  ODEQList(index, c, product_IDs(r), r.stoich_p),
                  r.stoich_r[PosIn(reactant_IDs(r), s)]) >>
     ELSE <<>>)
    \o
    (IF s \in Range(product_IDs(r)) /\ r.kf > 0
     THEN << Term(ODERxnRate(c, r.kf, r.udim, r.stoich_r),
                  ODEQList(index, c, reactant_IDs(r), r.stoich_r),
                  r.stoich_p[PosIn(product_IDs(r), s)]) >>
     ELSE <<>>)

\* the edges of c whose connection carries species s, in dict order
EdgesWith(c, s) ==
    SelectSeq(c.connections, LAMBDA e : s \in DOMAIN e.conn.species_rates)

\* a stored rate of a connection, and the same divided by a volume
StoredRate(conn, k) == Qty(k, 1, RateLdim(conn), 0, 0)
RateOverVolume(conn, k, v) == Qty(k, v.mag, RateLdim(conn) - v.ldim, 0, 0)

\* the "out" term of species s at position i over one edge (lines 179-182);
\* the test is made on the item of c.connections
ConnSink(c, edge, s, i) ==
    IF IsInstanceDivByV(edge)
    THEN Term(RateOverVolume(edge.conn, edge.conn.species_rates[s][1], c.volume), <<i>>, 1)
    ELSE Term(StoredRate(edge.conn, edge.conn.species_rates[s][1]), <<i>>, 1)

\* the "in" term from a neighbour that is not a Reservoir (lines 190-197)
ConnSource(fm, index, edge, s) ==
    IF IsInstanceDivByV(edge)
    THEN Term(RateOverVolume(edge.conn, edge.conn.species_rates[s][2],
                             CompOf(fm, edge.label).volume),
              <<index[edge.label][s]>>, 1)
    ELSE Term(StoredRate(edge.conn, edge.conn.species_rates[s][2]),
              <<index[edge.label][s]>>, 1)

\* the "in" term from a Reservoir (lines 185-188)
ConnSourceReservoir(edge, s) ==
    Term(StoredRate(edge.conn, edge.conn.species_rates[s][2]), s, 1)

\* a dict lookup that raises KeyError while the lists of a position are built
PosLookupFails(fm, index, c, s) ==
    \E e \in DOMAIN EdgesWith(c, s) :
        LET edge == EdgesWith(c, s)[e]
            other == CompOf(fm, edge.label)
        IN  IF IsInstanceReservoir(other)
            THEN s \notin other.conc_funcs
            ELSE s \notin DOMAIN index[edge.label]

\* the three lists of position i (0-based): body of the loop of _build_dqdt
PosLists(fm, st, i) ==
    LET c == CompOf(fm, st.compartment[i + 1])
        s == st.species[i + 1]
        edges == EdgesWith(c, s)
        toRes(e) == IsInstanceReservoir(CompOf(fm, e.label))
    IN  [sources |->
             Flatten([j \in DOMAIN c.reactions |-> RxnSources(st.index, c, c.reactions[j], s)])
             \o Flatten([e \in DOMAIN edges |->
                    IF toRes(edges[e]) THEN <<>>
                    ELSE << ConnSource(fm, st.index, edges[e], s) >>]),
         sinks |->
             Flatten([j \in DOMAIN c.reactions |-> RxnSinks(st.index, c, c.reactions[j], s)])
             \o [e \in DOMAIN edges |-> ConnSink(c, edges[e], s, i)],
         sources_reservoir |->
             Flatten([e \in DOMAIN edges |->
                    IF toRes(edges[e]) THEN << ConnSourceReservoir(edges[e], s) >>
                    ELSE <<>>])]

\* s[0].to(nm**3/sec) of DerivFuncBuilder succeeds for a rate in volume/time
ToVolRateOk(q) == q.ldim = 3 /\ q.mdim = 0

\* a conversion of DerivFuncBuilder.__init__ raises (pint DimensionalityError)
BuilderFails(lists) ==
    \/ \E k \in DOMAIN lists.sources : ~CastOk(lists.sources[k].rate)
    \/ \E k \in DOMAIN lists.sinks : ~CastOk(lists.sinks[k].rate)
    \/ \E k \in DOMAIN lists.sources_reservoir :
           ~ToVolRateOk(lists.sources_reservoir[k].rate)

\* pref = s[0].to(...).magnitude * s[2], with the sign of the term
Pref(t, sign) == [num |-> sign * t.rate.num * t.n_per, den |-> t.rate.den,
                  napow |-> t.rate.napow]

\* DerivFuncBuilder.__init__: terms with a positive prefactor are kept
DerivFuncBuilder(sources, sinks, sources_reservoir) ==
    [terms |->
         Flatten([k \in DOMAIN sources |->
             IF Pref(sources[k], 1).num > 0
             THEN << <<Pref(sources[k], 1), sources[k].q_list>> >> ELSE <<>>])
         \o Flatten([k \in DOMAIN sinks |->
             IF Pref(sinks[k], 1).num > 0
             THEN << <<Pref(sinks[k], 0 - 1), sinks[k].q_list>> >> ELSE <<>>]),
     sources_reservoir |->
         [k \in DOMAIN sources_reservoir |->
             <<Pref(sources_reservoir[k], 1), sources_reservoir[k].q_list>>]]

\* np.prod(Q[inds]) for a list of 0-based positions
RECURSIVE QProd(_, _)
QProd(inds, Q) == IF inds = <<>> THEN 1 ELSE Q[inds[1] + 1] * QProd(Tail(inds), Q)

\* DerivFuncBuilder.deriv_func without the reservoir part: the sum of
\* pref * prod(Q[inds]) over the terms that carry the power na of NA, as a
\* fraction
RECURSIVE deriv_func(_, _, _)
deriv_func(terms, Q, na) ==
    IF terms = <<>> THEN [num |-> 0, den |-> 1]
    ELSE LET rest == deriv_func(Tail(terms), Q, na)
             pref == terms[1][1]
             v == IF pref.napow = na THEN pref.num * QProd(terms[1][2], Q) ELSE 0
         IN  [num |-> v * rest.den + rest.num * pref.den, den |-> pref.den * rest.den]

\* position i (0-based) is where _build_dqdt stops with an exception
PosFails(fm, st, i) ==
    \/ PosLookupFails(fm, st.index, CompOf(fm, st.compartment[i + 1]), st.species[i + 1])
    \/ BuilderFails(PosLists(fm, st, i))

\* ODESystem._build_dqdt: lists holds, per position reached, the lists that
\* were handed to DerivFuncBuilder; dqdt the builders that were constructed
BuildDqdt(fm, st) ==
    LET bad == { i \in 0..(st.size - 1) : PosFails(fm, st, i) }
        stop == IF bad = {} THEN st.size
                ELSE CHOOSE i \in bad : \A j \in bad : i <= j
        handed == IF bad # {}
                     /\ ~PosLookupFails(fm, st.index, CompOf(fm, st.compartment[stop + 1]),
                                        st.species[stop + 1])
                  THEN stop + 1 ELSE stop
    IN  [built |-> bad = {},
         error |-> IF bad = {} THEN "" ELSE "raised",
         lists |-> [i \in 1..handed |-> PosLists(fm, st, i - 1)],
         dqdt |-> [i \in 1..stop |->
                      LET l == PosLists(fm, st, i - 1)
                      IN  DerivFuncBuilder(l.sources, l.sinks, l.sources_reservoir)]]

\* ODESystem(flat): System.__init__ builds the State, then _build_dqdt
NewODESystem ==
    /\ state = NoState
    /\ osys = NoODE
    /\ \E ords \in SetOrders(flat) :
           /\ state' = InitFromModel(flat, ords)
           /\ osys' = BuildDqdt(flat, InitFromModel(flat, ords))
    /\ UNCHANGED <<flat, gsys, gil, run, model, heap, fl, rep, obj>>

(***************************************************************************)
(* The simulation driver (systems/system.py System.run, reporters.py)      *)
(***************************************************************************)
\* Times and periods are Python numbers given in thousandths (1300 is 1.3,
\* 2000 is the int 2).  A double is named by the decimal it is nearest to
\* (m, in thousandths) and its distance from that decimal's double in units
\* in the last place (u): Num(3900, 1) is 3.9000000000000004.
Num(m, u) == [m |-> m, u |-> u]
NumLt(a, b) == a.m < b.m \/ (a.m = b.m /\ a.u < b.u)

Totals == { 0, 600, 1000, 2000, 3900 }
Periods == { 100, 189, 1000, 1300, 2000 }
MaxReporters == 2
MaxRunSize == 2

\* IEEE-754 double arithmetic on these numbers.  MulAbove: the pairs (f, i)
\* whose product f*i is the double one ulp above the double of the decimal
\* product (0.1*3 = 0.30000000000000004); every other product is the double
\* of the decimal product.
MulAbove ==
    { <<100, 3>>, <<100, 6>>, <<100, 7>>, <<100, 12>>, <<100, 14>>, <<100, 17>>,
      <<100, 19>>, <<100, 23>>, <<100, 24>>, <<100, 28>>, <<100, 29>>, <<100, 33>>,
      <<100, 34>>, <<100, 38>>, <<100, 39>>, <<189, 5>>, <<189, 10>>, <<189, 20>>,
      <<1300, 3>> }

\* QuotientBelow: the pairs (t, f) of decimals with t a multiple of f whose
\* double quotient t/f falls below the integer (0.567/0.189 =
\* 2.9999999999999996, 0.6/0.1 = 5.999999999999999); every other quotient
\* of a multiple is the integer or lies within 1e-15 above it.
QuotientBelow == { <<567, 189>>, <<600, 100>>, <<1134, 189>>, <<2268, 189>> }

\* freq*i (line 82)
FMul(f, i) == Num(f * i, IF <<f, i>> \in MulAbove THEN 1 ELSE 0)

\* int(total_time/freq) (line 81)
IntQuot(t, f) == (t \div f) - (IF <<t, f>> \in QuotientBelow THEN 1 ELSE 0)

\* final_t/r.freq - int(final_t/r.freq) < EPSILON (line 99): the fractional
\* part of the quotient of a non-multiple is at least 1/3900 here
Fires(t, f) == t.m % f = 0 /\ (t.u = 0 => <<t.m, f>> \notin QuotientBelow)

\* list(set(checkpoints)) followed by sort()
RECURSIVE SortNums(_)
SortNums(S) ==
    IF S = {} THEN <<>>
    ELSE LET least == CHOOSE x \in S : \A y \in S : x = y \/ NumLt(x, y)
         IN  <<least>> \o SortNums(S \ {least})

\* the checkpoints of run(total_time) (lines 76-85)
Checkpoints(total_time, report_freqs) ==
    SortNums({ Num(0, 0), Num(total_time, 0) }
             \cup UNION { { FMul(report_freqs[r], i) :
                                i \in 0..IntQuot(total_time, report_freqs[r]) } :
                          r \in DOMAIN report_freqs })

\* 'final_t' in result (line 92): the result of ODESystem.propagate is scipy's
\* OdeResult, a dict without that key; the result of GillespieSystem.propagate
\* is the tuple (new_q, final_t), whose test compares the string with the
\* array new_q: False under numpy before 1.25, a ValueError (truth value of an
\* array) under later numpy when the array has more than one element
InResult(backend, size) ==
    IF backend = "Gillespie" /\ size > 1 THEN { "False", "ValueError" } ELSE { "False" }

NoRun == [pc |-> "idle"]

ReporterLists == UNION { [1..n -> Periods] : n \in 0..MaxReporters }

\* run(total_time): lines 76-85
RunCall ==
    /\ run = NoRun
    /\ \E total_time \in Totals, freqs \in ReporterLists,
          backend \in {"ODE", "Gillespie"}, size \in 1..MaxRunSize :
          run' = [pc |-> "loop",
                  total_time |-> total_time,
                  backend |-> backend,
                  size |-> size,
                  reporters |-> [r \in DOMAIN freqs |-> [freq |-> freqs[r], reports |-> <<>>]],
                  checkpoints |-> Checkpoints(total_time, freqs),
                  i |-> 0,
                  calls |-> <<>>]
    /\ UNCHANGED <<flat, state, gsys, gil, osys, model, heap, fl, rep, obj>>

\* one pass of the loop (lines 87-100): propagate, then the reporters
RunSegment ==
    /\ run.pc = "loop"
    /\ run.i < Len(run.checkpoints) - 1
    /\ "False" \in InResult(run.backend, run.size)
    /\ LET init_t == run.checkpoints[run.i + 1]
           final_t == run.checkpoints[run.i + 2]
       IN  run' = [run EXCEPT
                     !.calls = Append(@, <<init_t, final_t>>),
                     !.reporters = [r \in DOMAIN @ |->
                         IF Fires(final_t, @[r].freq)
                         THEN [@[r] EXCEPT !.reports =
                                  Append(@, [t |-> run.checkpoints[run.i + 2]])]
                         ELSE @[r]],
                     !.i = @ + 1]
    /\ UNCHANGED <<flat, state, gsys, gil, osys, model, heap, fl, rep, obj>>

\* the pass stops at line 92 after the call of propagate
RunSegmentRaises ==
    /\ run.pc = "loop"
    /\ run.i < Len(run.checkpoints) - 1
    /\ "ValueError" \in InResult(run.backend, run.size)
    /\ run' = [run EXCEPT
                 !.calls = Append(@, <<run.checkpoints[run.i + 1],
                                       run.checkpoints[run.i + 2]>>),
                 !.pc = "raised"]
    /\ UNCHANGED <<flat, state, gsys, gil, osys, model, heap, fl, rep, obj>>

\* return result (line 102): result is unbound when the loop made no pass
RunReturn ==
    /\ run.pc = "loop"
    /\ run.i = Len(run.checkpoints) - 1
    /\ run' = [run EXCEPT !.pc = IF run.i = 0 THEN "raised" ELSE "returned"]
    /\ UNCHANGED <<flat, state, gsys, gil, osys, model, heap, fl, rep, obj>>

(***************************************************************************)
(* Reporters (systems/reporters.py)                                        *)
(*                                                                         *)
(* A state vector is a numpy array, an object: rep.arrays holds the arrays *)
(* that exist, rep.q_val names the one that system.state.q_val is bound to.*)
(***************************************************************************)
RepSize == 2       \* length of the state vector
MaxVal == 1        \* largest entry of a state vector
MaxReports == 2    \* reports collected by one reporter
MaxArrays == 2     \* state vector objects created in one run

ReporterClasses ==
    { "AllReporter", "SelectionReporter", "SumReporter", "AvgReporter",
      "MaxReporter", "MinReporter" }

\* selection_idxs: lists of 0-based positions of the state vector
Selections ==
    { sel \in { <<0>>, <<1>>, <<2>>, <<0, 1>>, <<1, 0>>, <<2, 0>>, <<1, 2>>,
                <<0, 1, 2>>, <<2, 1, 0>> } :
        \A k \in DOMAIN sel : sel[k] < RepSize }

\* Reporter.__init__ and the __init__ of the subclasses; AllReporter has no
\* selection
NewReporter(cls, selection_idxs, freq) ==
    [cls |-> cls,
     selection_idxs |-> IF cls = "AllReporter" THEN <<>> ELSE selection_idxs,
     freq |-> freq, reports |-> <<>>]

\* current_state_vec[self.selection_idxs]: a new array with the selected
\* entries
Select(vec, selection_idxs) ==
    [k \in DOMAIN selection_idxs |-> vec[selection_idxs[k] + 1]]

\* np.max and np.argmax (the first position of the maximum, 0-based)
np_max(tmp) == CHOOSE v \in Range(tmp) : \A w \in Range(tmp) : w <= v
np_argmax(tmp) ==
    (CHOOSE k \in DOMAIN tmp : tmp[k] = np_max(tmp) /\ \A j \in 1..(k - 1) : tmp[j] # np_max(tmp)) - 1

\* the value under 'report' that report(current_time, current_state_vec)
\* stores; a is the array object handed over, arrays the objects that exist
ReportOf(r, arrays, a) ==
    LET tmp == Select(arrays[a], r.selection_idxs)
    IN  CASE r.cls = "AllReporter"       -> [array |-> a]
          [] r.cls = "SelectionReporter" -> [value |-> tmp]
          [] r.cls = "SumReporter"       -> [value |-> SumSeq(tmp)]
          [] r.cls = "AvgReporter"       -> [value |-> <<SumSeq(tmp), Len(r.selection_idxs)>>]
          [] r.cls = "MaxReporter"       -> [value |-> <<np_max(tmp), np_argmax(tmp)>>]
          [] r.cls = "MinReporter"       -> [value |-> <<np_max(tmp), np_argmax(tmp)>>]

StateVecs == [1..RepSize -> 0..MaxVal]

\* r.report(checkpoints[i+1], self.state.q_val) (system.py line 100)
ReporterReport ==
    /\ rep.pc = "attached"
    /\ Len(rep.reporter.reports) < MaxReports
    /\ rep' = [rep EXCEPT
                 !.t = @ + 1,
                 !.reporter.reports =
                     Append(@, [t |-> rep.t + 1,
                                report |-> ReportOf(rep.reporter, rep.arrays, rep.q_val)])]
    /\ UNCHANGED <<flat, state, gsys, gil, osys, run, model, heap, fl, obj>>

\* mutant: propagate writes the new values into the array state.q_val is
\* bound to
ReporterPropagateInPlace ==
    /\ rep.pc = "attached"
    /\ \E vec \in StateVecs :
           /\ vec # rep.arrays[rep.q_val]
           /\ rep' = [rep EXCEPT !.arrays[rep.q_val] = vec]
    /\ UNCHANGED <<flat, state, gsys, gil, osys, run, model, heap, fl, obj>>

\* propagate binds state.q_val to a new array (GillespieSystem.propagate
\* line 42, ODESystem.propagate line 211)
ReporterPropagate ==
    /\ rep.pc = "attached"
    /\ Len(rep.arrays) < MaxArrays
    /\ \E vec \in StateVecs :
           rep' = [rep EXCEPT !.arrays = Append(@, vec), !.q_val = Len(rep.arrays) + 1]
    /\ UNCHANGED <<flat, state, gsys, gil, osys, run, model, heap, fl, obj>>

\* set_q writes an entry of the array state.q_val is bound to
\* (ODESystem.set_q line 62, GillespieSystem.set_q)
ReporterSetQ ==
    /\ rep.pc = "attached"
    /\ \E i \in 1..RepSize, Q \in 0..MaxVal :
           /\ rep.arrays[rep.q_val][i] # Q
           /\ rep' = [rep EXCEPT !.arrays[rep.q_val][i] = Q]
    /\ UNCHANGED <<flat, state, gsys, gil, osys, run, model, heap, fl, obj>>

(***************************************************************************)
(* Model.flatten (model.py, compartments/, connections.py)                 *)
(*                                                                         *)
(* Compartments and connections are Python objects that several dicts      *)
(* refer to.  A compartment of the Model is named by its index in          *)
(* model.objs, a copy held by the FlatModel by its index in fl.flatmodel,  *)
(* a connection object by its index in heap.  Positions are magnitudes in  *)
(* nm; areas, distances, diffusion constants and rates are quantities.     *)
(***************************************************************************)
\* the Python values an ID or array_ID takes: None, a str, an int, a tuple
None == [ty |-> "None"]
StrID(s) == [ty |-> "str", v |-> s]
IntID(n) == [ty |-> "int", v |-> n]
TupleID(t) == [ty |-> "tuple", v |-> t]
List(l) == [ty |-> "list", v |-> l]

RECURSIVE join_tuple(_)
join_tuple(tup) ==
    IF tup = <<>> THEN ""
    ELSE IF Len(tup) = 1 THEN ToString(tup[1])
    ELSE ToString(tup[1]) \o "_" \o join_tuple(Tail(tup))

make_ID(array_ID, comp_ID) ==
    LET tag == IF array_ID # None THEN array_ID.v \o "-" ELSE ""
    IN  CASE comp_ID.ty = "tuple" -> tag \o join_tuple(comp_ID.v)
          [] comp_ID.ty = "str"   -> tag \o comp_ID.v
          [] comp_ID.ty = "int"   -> tag \o ToString(comp_ID.v)

\* arithmetic of quantities (pint): magnitudes are rationals, units add up
QMul(a, b) ==
    Qty(a.num * b.num, a.den * b.den, a.ldim + b.ldim, a.mdim + b.mdim,
        a.napow + b.napow)
QDiv(a, b) ==
    Qty(a.num * b.den, a.den * b.num, a.ldim - b.ldim, a.mdim - b.mdim,
        a.napow - b.napow)
\* Python's min(a, b): b only when it is strictly smaller
QMin(a, b) == IF b.num * a.den < a.num * b.den THEN b ELSE a

Area(n) == Qty(n, 1, 2, 0, 0)
Length(n) == Qty(n, 1, 1, 0, 0)
DiffusionConstant(n) == Qty(n, 1, 2, 0, 0)

\* np.sqrt of a sum of squares (the sums of the model are perfect squares)
Sqrt(n) == CHOOSE r \in 0..n : r * r = n

Ref(space, ix) == [space |-> space, ix |-> ix]

\* an item of Compartment.connections: label -> (other_compartment, conn)
Entry(label, other, conn) == [label |-> label, other |-> other, conn |-> conn]

NewCompartment(ID, pos, array_ID, volume) ==
    [cls |-> "Compartment", ID |-> ID, pos |-> pos, array_ID |-> array_ID,
     volume |-> volume, has_surface_area |-> FALSE, surface_area |-> None,
     rxn_ids |-> {}, reactions |-> <<>>, connections |-> <<>>,
     conc_funcs |-> <<>>]

NewCompartment3D(ID, pos, array_ID, surface_area) ==
    [cls |-> "Compartment3D", ID |-> ID, pos |-> pos, array_ID |-> array_ID,
     volume |-> Volume((pos[1][2] - pos[1][1]) * (pos[2][2] - pos[2][1])
                           * (pos[3][2] - pos[3][1]), 3),
     has_surface_area |-> TRUE, surface_area |-> surface_area,
     rxn_ids |-> {}, reactions |-> <<>>, connections |-> <<>>,
     conc_funcs |-> <<>>]

NewReservoir(ID, array_ID, conc_funcs) ==
    [cls |-> "Reservoir", ID |-> ID, pos |-> <<>>, array_ID |-> array_ID,
     volume |-> NoVolume, has_surface_area |-> FALSE, surface_area |-> None,
     rxn_ids |-> {}, reactions |-> <<>>, connections |-> <<>>,
     conc_funcs |-> conc_funcs]

\* mutant: the reaction is appended whether or not its ID is present
add_rxn_unchecked(self, rxn) ==
    [self EXCEPT !.reactions = Append(@, rxn), !.rxn_ids = @ \cup {rxn.ID}]

\* Compartment.add_rxn_to_compartment: rxn_ids is self._rxn_ids; a reaction
\* whose ID is in it is not added (a warning is logged)
add_rxn_to_compartment(self, rxn) ==
    IF rxn.ID \in self.rxn_ids THEN self
    ELSE [self EXCEPT !.reactions = Append(@, rxn), !.rxn_ids = @ \cup {rxn.ID}]

RECURSIVE add_rxns_to_compartment(_, _)
add_rxns_to_compartment(self, rxns) ==
    IF rxns = <<>> THEN self
    ELSE add_rxns_to_compartment(add_rxn_to_compartment(self, rxns[1]), Tail(rxns))

\* Compartment.connect: the item is written under the other compartment's
\* tag; an existing key keeps its place in the dict, a new one goes last
connect(self, other_compartment, ref, conn_type) ==
    LET conn_tag == make_ID(other_compartment.array_ID, other_compartment.ID)
        item == Entry(conn_tag, ref, conn_type)
    IN  IF \E i \in DOMAIN self.connections : self.connections[i].label = conn_tag
        THEN [self EXCEPT !.connections =
                 [i \in DOMAIN self.connections |->
                     IF self.connections[i].label = conn_tag THEN item
                     ELSE self.connections[i]]]
        ELSE [self EXCEPT !.connections = Append(self.connections, item)]

\* Compartment.copy and Reservoir.copy
copy(self, ID, delete_array_ID) ==
    LET newID == IF ID = None THEN self.ID ELSE ID
        new_aID == IF delete_array_ID THEN None ELSE self.array_ID
    IN  IF self.cls = "Reservoir"
        THEN NewReservoir(newID, new_aID, self.conc_funcs)
        ELSE [self EXCEPT !.ID = newID, !.array_ID = new_aID,
                          !.rxn_ids = { self.reactions[i].ID : i \in DOMAIN self.reactions }]

\* connections.py FicksConnection / ResConnection: surface_area and
\* ic_distance are None until the author or the flattener sets them
FicksConnection(keys, species_d_constants, surface_area, ic_distance, dim) ==
    [type |-> "Ficks", keys |-> keys, species_d_constants |-> species_d_constants,
     surface_area |-> surface_area, ic_distance |-> ic_distance, dim |-> dim]

ResConnection(keys, species_d_constants, surface_area, ic_distance, dim, face) ==
    [type |-> "Res", keys |-> keys, species_d_constants |-> species_d_constants,
     surface_area |-> surface_area, ic_distance |-> ic_distance, dim |-> dim,
     face |-> face]

\* FicksConnection.resolve / ResConnection.resolve: kV = d*A/dx per species,
\* converted to nm^dim/s; the DivByVConnection stores the pair (kV, kV)
ResolvedRate(conn, s) ==
    QDiv(QMul(conn.species_d_constants[s], conn.surface_area), conn.ic_distance)

ResolveFails(conn) ==
    \E s \in Range(conn.keys) :
        ResolvedRate(conn, s).ldim # conn.dim \/ ResolvedRate(conn, s).mdim # 0

resolve(conn) ==
    Conn("DivByV", conn.keys,
         [s \in Range(conn.keys) |-> <<ResolvedRate(conn, s), ResolvedRate(conn, s)>>],
         conn.dim)

\* ---- CompartmentArray3D (compartments/arrays.py) ------------------------
\* position of cell (i, j, k) in the order in which the cells are created
CellIndex(ny, nz, i, j, k) == i * ny * nz + j * nz + k + 1

RECURSIVE ApplyConnects(_, _, _, _)
ApplyConnects(cells, calls, conn_type, base) ==
    IF calls = <<>> THEN cells
    ELSE LET a == calls[1][1]
             b == calls[1][2]
         IN  ApplyConnects(
                 [cells EXCEPT ![a] = connect(cells[a], cells[b],
                                              Ref("model", base + b), conn_type)],
                 Tail(calls), conn_type, base)

\* the array's compartments are objects base+1 .. base+n of the model
CompartmentArray3D(array_ID, x_pos, y_pos, z_pos, conn_type, periodic, base) ==
    LET nx == Len(x_pos) - 1
        ny == Len(y_pos) - 1
        nz == Len(z_pos) - 1
        I(n) == (n - 1) \div (ny * nz)
        J(n) == ((n - 1) \div nz) % ny
        K(n) == (n - 1) % nz
        Ix(i, j, k) == CellIndex(ny, nz, i, j, k)
        cells ==
            [n \in 1..(nx * ny * nz) |->
                LET lx == x_pos[I(n) + 2] - x_pos[I(n) + 1]
                    ly == y_pos[J(n) + 2] - y_pos[J(n) + 1]
                    lz == z_pos[K(n) + 2] - z_pos[K(n) + 1]
                IN  NewCompartment3D(
                        TupleID(<<I(n), J(n), K(n)>>),
                        << <<x_pos[I(n) + 1], x_pos[I(n) + 2]>>,
                           <<y_pos[J(n) + 1], y_pos[J(n) + 2]>>,
                           <<z_pos[K(n) + 1], z_pos[K(n) + 2]>> >>,
                        StrID(array_ID),
                        [xy |-> Area(lx * ly), yz |-> Area(ly * lz),
                         xz |-> Area(lx * lz)])]
        Nbors(n) ==
            LET i == I(n)
                j == J(n)
                k == K(n)
            IN  (IF i > 0      THEN << <<n, Ix(i - 1, j, k)>> >> ELSE <<>>) \o
                (IF i < nx - 1 THEN << <<n, Ix(i + 1, j, k)>> >> ELSE <<>>) \o
                (IF j > 0      THEN << <<n, Ix(i, j - 1, k)>> >> ELSE <<>>) \o
                (IF j < ny - 1 THEN << <<n, Ix(i, j + 1, k)>> >> ELSE <<>>) \o
                (IF k > 0      THEN << <<n, Ix(i, j, k - 1)>> >> ELSE <<>>) \o
                (IF k < nz - 1 THEN << <<n, Ix(i, j, k + 1)>> >> ELSE <<>>)
        grid == Flatten([n \in 1..(nx * ny * nz) |-> Nbors(n)])
        wrapx ==
            IF periodic[1]
            THEN Flatten([n \in 1..(ny * nz) |->
                     << <<Ix(0, J(n), K(n)), Ix(nx - 1, J(n), K(n))>>,
                        <<Ix(nx - 1, J(n), K(n)), Ix(0, J(n), K(n))>> >>])
            ELSE <<>>
        wrapy ==
            IF periodic[2]
            THEN Flatten([n \in 1..(nx * nz) |->
                     LET i == (n - 1) \div nz
                         k == (n - 1) % nz
                     IN  << <<Ix(i, 0, k), Ix(i, ny - 1, k)>>,
                            <<Ix(i, ny - 1, k), Ix(i, 0, k)>> >>])
            ELSE <<>>
        wrapz ==
            IF periodic[3]
            THEN Flatten([n \in 1..(nx * ny) |->
                     LET i == (n - 1) \div ny
                         j == (n - 1) % ny
                     IN  << <<Ix(i, j, 0), Ix(i, j, nz - 1)>>,
                            <<Ix(i, j, nz - 1), Ix(i, j, 0)>> >>])
            ELSE <<>>
    IN  [array_ID |-> array_ID,
         objs |-> ApplyConnects(cells, grid \o wrapx \o wrapy \o wrapz,
                                conn_type, base),
         compartments |-> [n \in 1..(nx * ny * nz) |-> base + n],
         box_len |-> << x_pos[Len(x_pos)] - x_pos[1],
                        y_pos[Len(y_pos)] - y_pos[1],
                        z_pos[Len(z_pos)] - z_pos[1] >>,
         periodic |-> periodic]

\* ---- Model and FlatModel (model.py) -------------------------------------
\* Model.__init__ with at most one array: objs are all compartment objects
\* (those of the array, the stand-alone ones, and any that a connection
\* refers to without being added); compartments and arrays hold the
\* dict values in insertion order
NewModel(objs, arrays, compartments) ==
    [objs |-> objs,
     arrays |-> [a \in DOMAIN arrays |->
                    [array_ID |-> arrays[a].array_ID,
                     compartments |-> arrays[a].compartments,
                     box_len |-> arrays[a].box_len,
                     periodic |-> arrays[a].periodic]],
     compartments |-> compartments,
     periodic |-> IF arrays = <<>> THEN None ELSE List(arrays[1].periodic),
     box_len |-> IF arrays = <<>> THEN None ELSE List(arrays[1].box_len)]

NoModel == [objs |-> <<>>, arrays |-> <<>>, compartments |-> <<>>,
            periodic |-> None, box_len |-> None]

NoFlatten == [pc |-> "idle"]

\* the compartments in the order in which flatten() adds them
FlattenOrder(m) ==
    m.compartments \o Flatten([a \in DOMAIN m.arrays |-> m.arrays[a].compartments])

Keys(comps) == { comps[i].ID.v : i \in DOMAIN comps }

\* FlatModel.add_compartment; fm = [error, tag, comps]
add_compartment(fm, compartment) ==
    LET newID == make_ID(compartment.array_ID, compartment.ID)
    IN  IF newID \in Keys(fm.comps)
        THEN [fm EXCEPT !.error = "DuplicateID", !.tag = newID]
        ELSE [fm EXCEPT !.comps = Append(fm.comps, copy(compartment, StrID(newID), TRUE))]

\* FlatModel.add_compartments; the first error ends the loop
RECURSIVE add_compartments(_, _, _)
add_compartments(fm, m, ixs) ==
    IF ixs = <<>> \/ fm.error # "" THEN fm
    ELSE add_compartments(add_compartment(fm, m.objs[ixs[1]]), m, Tail(ixs))

\* mutant: the check of the edge targets reports nothing
find_missing_nothing(comps) == <<>>

find_missing_compartments(comps) ==
    Flatten([ci \in DOMAIN comps |->
        SelectSeq([ei \in DOMAIN comps[ci].connections |-> comps[ci].connections[ei].label],
                  LAMBDA nbor : nbor \notin Keys(comps))])

\* ---- resolve_ficks ------------------------------------------------------
Adjoin(pos1, pos2, ax) ==
    pos1[ax][2] = pos2[ax][1] \/ pos1[ax][1] = pos2[ax][2]

HasAxis(pos1, pos2, ax) == Len(pos1) >= ax /\ Len(pos2) >= ax

\* model.py 115-128: the face plane, or the error raised
AdjoiningFace(pos1, pos2) ==
    IF ~HasAxis(pos1, pos2, 1) THEN "IndexError"
    ELSE IF Adjoin(pos1, pos2, 1) THEN "yz"
    ELSE IF ~HasAxis(pos1, pos2, 2) THEN "IndexError"
    ELSE IF Adjoin(pos1, pos2, 2) THEN "xz"
    ELSE IF ~HasAxis(pos1, pos2, 3) THEN "IndexError"
    ELSE IF Adjoin(pos1, pos2, 3) THEN "xy"
    ELSE "ValueError"

\* c.surface_area[face]: the attribute may be missing or None
FaceAreaError(c) ==
    IF ~c.has_surface_area THEN "AttributeError"
    ELSE IF c.surface_area = None THEN "TypeError"
    ELSE ""

SurfaceAreaError(c1, c2) ==
    LET face == AdjoiningFace(c1.pos, c2.pos)
    IN  IF face \in {"IndexError", "ValueError"} THEN face
        ELSE IF FaceAreaError(c1) # "" THEN FaceAreaError(c1)
        ELSE FaceAreaError(c2)

SurfaceArea(c1, c2) ==
    LET face == AdjoiningFace(c1.pos, c2.pos)
    IN  QMin(c1.surface_area[face], c2.surface_area[face])

\* model.py 131-145 in doubled lengths: d2 is twice the separation of the
\* midpoints, so that dc*2 < -box_len reads d2 < -box_len
Separation2(pos1, pos2, i) == (pos1[i][1] + pos1[i][2]) - (pos2[i][1] + pos2[i][2])

\* mutant: no minimum-image correction
NoMinImage2(d2, periodic, box_len) == d2

MinImage2(d2, periodic, box_len) ==
    IF periodic
    THEN IF d2 < 0 - box_len THEN d2 + 2 * box_len
         ELSE IF d2 > box_len THEN d2 - 2 * box_len
         ELSE d2
    ELSE d2

DistanceError(m, pos1, pos2) ==
    IF ~HasAxis(pos1, pos2, 3) THEN "IndexError"
    ELSE IF m.periodic = None THEN "TypeError"
    ELSE ""

CentreDistance(m, pos1, pos2) ==
    LET dc2(i) == MinImage2(Separation2(pos1, pos2, i), m.periodic.v[i], m.box_len.v[i])
    IN  Qty(Sqrt(dc2(1) * dc2(1) + dc2(2) * dc2(2) + dc2(3) * dc2(3)), 2, 1, 0, 0)

\* Model.resolve_ficks(c1, c2, conn): c1 is the FlatModel's copy at ci, c2
\* the compartment the item refers to; what the call has written when it
\* raises stays written
resolve_ficks(m, hp, comps, ci, item) ==
    LET c1 == comps[ci]
        c2 == m.objs[item.other.ix]
        conn == hp[item.conn]
        sa_err == IF conn.surface_area # None THEN "" ELSE SurfaceAreaError(c1, c2)
        conn1 == IF conn.surface_area = None /\ sa_err = ""
                 THEN [conn EXCEPT !.surface_area = SurfaceArea(c1, c2)]
                 ELSE conn
        d_err == IF sa_err # "" THEN sa_err
                 ELSE IF conn1.ic_distance # None THEN ""
                 ELSE DistanceError(m, c1.pos, c2.pos)
        conn2 == IF d_err = "" /\ conn1.ic_distance = None
                 THEN [conn1 EXCEPT !.ic_distance = CentreDistance(m, c1.pos, c2.pos)]
                 ELSE conn1
        err == IF d_err # "" THEN d_err
               ELSE IF ResolveFails(conn2) THEN "DimensionalityError"
               ELSE ""
        hp1 == [hp EXCEPT ![item.conn] = conn2]
        new_conn == Len(hp) + 1
    IN  IF err # ""
        THEN [error |-> err, model |-> m, heap |-> hp1, comps |-> comps]
        ELSE [error |-> "",
              model |-> [m EXCEPT !.objs[item.other.ix] =
                            connect(c2, c1, Ref("flat", ci), new_conn)],
              heap |-> Append(hp1, resolve(conn2)),
              comps |-> [comps EXCEPT ![ci] = connect(c1, c2, item.other, new_conn)]]

\* ---- resolve_res --------------------------------------------------------
FacePlane(face) ==
    CASE face = "x" -> "yz" [] face = "y" -> "xz" [] face = "z" -> "xy"

FaceAxis(face) ==
    CASE face = "x" -> 1 [] face = "y" -> 2 [] face = "z" -> 3

\* mutant: the ResConnection is left in place
resolve_res_skipped(m, hp, comps, ci, item) ==
    [error |-> "", model |-> m, heap |-> hp, comps |-> comps]

resolve_res(m, hp, comps, ci, item) ==
    LET c1 == comps[ci]
        res == m.objs[item.other.ix]
        conn == hp[item.conn]
        sa_err == IF conn.surface_area # None THEN ""
                  ELSE IF conn.face \notin {"x", "y", "z"} THEN "ValueError"
                  ELSE FaceAreaError(c1)
        conn1 == IF conn.surface_area = None /\ sa_err = ""
                 THEN [conn EXCEPT !.surface_area = c1.surface_area[FacePlane(conn.face)]]
                 ELSE conn
        d_err == IF sa_err # "" THEN sa_err
                 ELSE IF conn1.ic_distance # None THEN ""
                 ELSE IF conn.face \notin {"x", "y", "z"} THEN "ValueError"
                 ELSE IF Len(c1.pos) < FaceAxis(conn.face) THEN "IndexError"
                 ELSE ""
        conn2 == IF d_err = "" /\ conn1.ic_distance = None
                 THEN [conn1 EXCEPT !.ic_distance =
                          Length(c1.pos[FaceAxis(conn.face)][2]
                                 - c1.pos[FaceAxis(conn.face)][1])]
                 ELSE conn1
        err == IF d_err # "" THEN d_err
               ELSE IF ResolveFails(conn2) THEN "DimensionalityError"
               ELSE ""
        hp1 == [hp EXCEPT ![item.conn] = conn2]
        new_conn == Len(hp) + 1
    IN  IF err # ""
        THEN [error |-> err, model |-> m, heap |-> hp1, comps |-> comps]
        ELSE [error |-> "", model |-> m,
              heap |-> Append(hp1, resolve(conn2)),
              comps |-> [comps EXCEPT ![ci] = connect(c1, res, item.other, new_conn)]]

\* ---- Model.flatten ------------------------------------------------------
\* the next item of the nested loop of flatten() at or after (ci, ei)
RECURSIVE NextItem(_, _, _)
NextItem(comps, ci, ei) ==
    IF ci > Len(comps) THEN <<ci, 1>>
    ELSE IF ei <= Len(comps[ci].connections) THEN <<ci, ei>>
    ELSE NextItem(comps, ci + 1, 1)

NoError == [kind |-> "", tags |-> <<>>]

\* flatten() up to the loop: copy every compartment under its flat id, then
\* check the targets of the connections
FlattenCall ==
    /\ fl.pc = "idle"
    /\ LET fm0 == add_compartments([error |-> "", tag |-> "", comps |-> <<>>],
                                   model, model.compartments)
           fm == add_compartments(fm0, model,
                     Flatten([a \in DOMAIN model.arrays |-> model.arrays[a].compartments]))
           missing == find_missing_compartments(fm.comps)
           before == [model |-> model, heap |-> heap]
       IN  fl' = IF fm.error # ""
                 THEN [pc |-> "raised",
                       error |-> [kind |-> "DuplicateID", tags |-> <<fm.tag>>],
                       flatmodel |-> fm.comps, ci |-> 1, ei |-> 1, before |-> before]
                 ELSE IF Len(missing) > 0
                 THEN [pc |-> "raised",
                       error |-> [kind |-> "Missing", tags |-> missing],
                       flatmodel |-> fm.comps, ci |-> 1, ei |-> 1, before |-> before]
                 ELSE [pc |-> "resolving", error |-> NoError,
                       flatmodel |-> fm.comps,
                       ci |-> NextItem(fm.comps, 1, 1)[1],
                       ei |-> NextItem(fm.comps, 1, 1)[2],
                       before |-> before]
    /\ UNCHANGED <<flat, state, gsys, gil, osys, run, model, heap, rep, obj>>

\* one iteration of the loop over c.connections.items()
FlattenItem ==
    /\ fl.pc = "resolving"
    /\ fl.ci <= Len(fl.flatmodel)
    /\ LET item == fl.flatmodel[fl.ci].connections[fl.ei]
           type == heap[item.conn].type
           r == IF type = "Res" THEN resolve_res(model, heap, fl.flatmodel, fl.ci, item)
                ELSE IF type = "Ficks"
                THEN resolve_ficks(model, heap, fl.flatmodel, fl.ci, item)
                ELSE [error |-> "", model |-> model, heap |-> heap,
                      comps |-> fl.flatmodel]
       IN  /\ model' = r.model
           /\ heap' = r.heap
           /\ fl' = IF r.error # ""
                    THEN [fl EXCEPT !.pc = "raised",
                                    !.error = [kind |-> r.error, tags |-> <<>>]]
                    ELSE [fl EXCEPT !.flatmodel = r.comps,
                                    !.ci = NextItem(r.comps, fl.ci, fl.ei + 1)[1],
                                    !.ei = NextItem(r.comps, fl.ci, fl.ei + 1)[2]]
    /\ UNCHANGED <<flat, state, gsys, gil, osys, run, rep, obj>>

FlattenReturn ==
    /\ fl.pc = "resolving"
    /\ fl.ci > Len(fl.flatmodel)
    /\ fl' = [fl EXCEPT !.pc = "returned"]
    /\ UNCHANGED <<flat, state, gsys, gil, osys, run, model, heap, rep, obj>>

(***************************************************************************)
(* Constructors and methods called on their own                            *)
(*                                                                         *)
(* obj holds one call: the function, its arguments, and after the call the *)
(* object it returned or changed, or the exception it raised.              *)
(***************************************************************************)
\* a rate as the author writes it: a pint quantity mag nm^ldim per second
\* or per millisecond, a plain number, or a tuple of these
RateQ(mag, per, ldim) == [ty |-> "quantity", mag |-> mag, per |-> per, ldim |-> ldim]
RateNumber(mag) == [ty |-> "number", mag |-> mag]
RateTuple(t) == [ty |-> "tuple", v |-> t]

\* q.ito(nm**ldim/sec): in place; raises for another dimension, and for an
\* object without the method
ItoError(q, ldim) ==
    CASE q.ty # "quantity" -> "AttributeError"
      [] q.ldim # ldim     -> "DimensionalityError"
      [] OTHER             -> ""
Ito(q, ldim) == IF q.per = "ms" THEN 1000 * q.mag ELSE q.mag

\* the two ito calls that end the loop body of each constructor, on the
\* tuple t stored for a species: the error of the first that raises, and
\* the magnitudes stored when none does
ItoPairError(t, ldim) ==
    CASE Len(t) = 0              -> "IndexError"
      [] ItoError(t[1], ldim) # "" -> ItoError(t[1], ldim)
      [] Len(t) = 1              -> "IndexError"
      [] OTHER                   -> ItoError(t[2], ldim)
ItoPair(t, ldim) ==
    [k \in DOMAIN t |-> IF k <= 2 THEN Ito(t[k], ldim) ELSE t[k].mag]

\* one pass of the loop of AnisotropicConnection.__init__ (lines 52-62)
AnisotropicItem(r) ==
    LET t == IF r.ty # "tuple" THEN <<r, r>> ELSE r.v
    IN  IF r.ty = "tuple" /\ Len(r.v) # 2
        THEN [error |-> "ValueError", rates |-> <<>>]
        ELSE [error |-> ItoPairError(t, 0),
              rates |-> IF ItoPairError(t, 0) = "" THEN ItoPair(t, 0) ELSE <<>>]

\* one pass of the loop of IsotropicConnection.__init__ (lines 98-103): the
\* loop variables are s and r, and line 99 reads the local k that line 100
\* assigns
IsotropicItem(r) == [error |-> "UnboundLocalError", rates |-> <<>>]

\* one pass of the loop of DivByVConnection.__init__ (lines 129-134)
DivByVItem(r, dim) ==
    LET t == IF r.ty # "tuple" THEN <<r, r>> ELSE r.v
    IN  [error |-> ItoPairError(t, dim),
         rates |-> IF ItoPairError(t, dim) = "" THEN ItoPair(t, dim) ELSE <<>>]

ConnectionClasses == { "Anisotropic", "Isotropic", "DivByV" }

ConnectionItem(cls, r, dim) ==
    CASE cls = "Anisotropic" -> AnisotropicItem(r)
      [] cls = "Isotropic"   -> IsotropicItem(r)
      [] cls = "DivByV"      -> DivByVItem(r, dim)

\* cls(species_rates, dim): the loop over species_rates.items() stops at the
\* first pass that raises; species_rates is a dict given by its keys in
\* order and its values
NewConnection(cls, keys, values, dim) ==
    LET item(k) == ConnectionItem(cls, values[keys[k]], dim)
        bad == { k \in DOMAIN keys : item(k).error # "" }
    IN  IF bad # {}
        THEN [pc |-> "raised",
              error |-> item(CHOOSE k \in bad : \A j \in bad : k <= j).error]
        ELSE [pc |-> "returned", error |-> "",
              self |-> Conn(cls, keys, [s \in Range(keys) |-> item(PosIn(keys, s)).rates], dim)]

\* the call of a connection constructor
CallNewConnection ==
    /\ obj.pc = "call"
    /\ obj.fn = "Connection"
    /\ obj' = [fn |-> obj.fn, args |-> obj.args] @@
              NewConnection(obj.args.cls, obj.args.keys, obj.args.species_rates, obj.args.dim)
    /\ UNCHANGED <<flat, state, gsys, gil, osys, run, model, heap, fl, rep>>

\* Compartment.remove_connection (lines 66-74): the warning of line 72 does
\* not end the call, and dict.pop of a key that is absent raises KeyError
remove_connection(self, other_compartment) ==
    LET conn_tag == make_ID(other_compartment.array_ID, other_compartment.ID)
    IN  IF \E i \in DOMAIN self.connections : self.connections[i].label = conn_tag
        THEN [pc |-> "returned", error |-> "",
              self |-> [self EXCEPT !.connections =
                           SelectSeq(@, LAMBDA e : e.label # conn_tag)]]
        ELSE [pc |-> "raised", error |-> "KeyError", self |-> self]

\* the call self.remove_connection(other_compartment)
CallRemoveConnection ==
    /\ obj.pc = "call"
    /\ obj.fn = "remove_connection"
    /\ obj' = [fn |-> obj.fn, args |-> obj.args] @@
              remove_connection(obj.args.self, obj.args.other_compartment)
    /\ UNCHANGED <<flat, state, gsys, gil, osys, run, model, heap, fl, rep>>

\* a reaction rate as the author writes it: a plain number, or a pint
\* quantity mag nm^udim[1] mol^udim[2] per second or per millisecond
RxnNumber(mag) == [ty |-> "number", mag |-> mag]
RxnQ(mag, udim, per) == [ty |-> "quantity", mag |-> mag, udim |-> udim, per |-> per]

\* an entry of a reactants or products list: a Species, or its ID as a str
Sp(ID) == [ty |-> "Species", ID |-> ID]
Str(ID) == [ty |-> "str", ID |-> ID]

\* Reaction._expected_unit_from_order: molar^(1 - order) / second, as the
\* exponents of length and amount
expected_unit_from_order(stoich) ==
    <<3 * (SumSeq(stoich) - 1), 0 - (SumSeq(stoich) - 1)>>

\* Reaction._validate_rate (lines 105-123)
validate_rate(rate, expected_unit) ==
    LET q == IF rate.ty = "number" THEN RxnQ(rate.mag, expected_unit, "s") ELSE rate
    IN  IF q.mag < 0 \/ q.udim # expected_unit
        THEN [error |-> "ValueError", q |-> q]
        ELSE [error |-> "",
              q |-> RxnQ(IF q.per = "ms" THEN 1000 * q.mag ELSE q.mag, expected_unit, "s")]

\* Reaction.__init__ (lines 68-95): the checks in their order, then the
\* arguments are stored as given
NewReaction(ID, reactants, products, stoich_r, stoich_p, kf, kr) ==
    CASE Len(reactants) # Len(stoich_r) -> [pc |-> "raised", error |-> "ValueError"]
      [] Len(products) # Len(stoich_p)  -> [pc |-> "raised", error |-> "ValueError"]
      [] \E i \in DOMAIN reactants : reactants[i].ty # "Species"
                                        -> [pc |-> "raised", error |-> "TypeError"]
      [] \E i \in DOMAIN products : products[i].ty # "Species"
                                        -> [pc |-> "raised", error |-> "TypeError"]
      [] kf.mag < 0 \/ kr.mag < 0       -> [pc |-> "raised", error |-> "ValueError"]
      [] OTHER ->
           [pc |-> "returned", error |-> "",
            self |-> [ID |-> ID, reactants |-> reactants, stoich_r |-> stoich_r,
                      products |-> products, stoich_p |-> stoich_p, kf |-> kf, kr |-> kr,
                      reactant_IDs |-> [i \in DOMAIN reactants |-> reactants[i].ID],
                      product_IDs |-> [i \in DOMAIN products |-> products[i].ID]]]

\* the call Reaction(ID, reactants, products, stoich_r, stoich_p, kf, kr)
CallNewReaction ==
    /\ obj.pc = "call"
    /\ obj.fn = "Reaction"
    /\ obj' = [fn |-> obj.fn, args |-> obj.args] @@
              NewReaction(obj.args.ID, obj.args.reactants, obj.args.products,
                          obj.args.stoich_r, obj.args.stoich_p, obj.args.kf, obj.args.kr)
    /\ UNCHANGED <<flat, state, gsys, gil, osys, run, model, heap, fl, rep>>

\* the connect calls of CompartmentArray2D.__init__ for the cell (i, j), as
\* pairs (key of the compartment, key of the other one): lines 157-168
CellCalls2D(nx, ny, i, j) ==
    (IF i > 0      THEN << << <<i, j>>, <<i - 1, j>> >> >> ELSE <<>>) \o
    (IF i < nx - 1 THEN << << <<i, j>>, <<i + 1, j>> >> >> ELSE <<>>) \o
    (IF j > 0      THEN << << <<i, j>>, <<i, j - 1>> >> >> ELSE <<>>) \o
    (IF j < ny - 1 THEN << << <<i, j>>, <<i, j + 1>> >> >> ELSE <<>>)

\* all connect calls of the constructor in program order (lines 155-178)
Calls2D(nx, ny, periodic) ==
    Flatten([c \in 1..(nx * ny) |-> CellCalls2D(nx, ny, (c - 1) \div ny, (c - 1) % ny)])
    \o (IF periodic[1]
        THEN Flatten([j \in 1..ny |->
                 << << <<0, j - 1>>, <<nx - 1, j - 1>> >>,
                    << <<nx - 1, j - 1>>, <<0, j - 1>> >> >>])
        ELSE <<>>)
    \o (IF periodic[2]
        THEN Flatten([i \in 1..nx |->
                 << << <<i - 1, 0>>, <<i - 1, ny - 1>> >>,
                    << <<i - 1, ny - 1>>, <<i - 1, 0>> >> >>])
        ELSE <<>>)

\* the connections dicts (keys of the other compartments, in insertion
\* order) after the connect calls
RECURSIVE Wire(_, _)
Wire(conns, calls) ==
    IF calls = <<>> THEN conns
    ELSE LET a == calls[1][1]
             b == calls[1][2]
         IN  Wire([conns EXCEPT ![a] = IF b \in Range(@) THEN @ ELSE Append(@, b)],
                  Tail(calls))

\* CompartmentArray2D.__init__ (lines 131-178): the compartments are created
\* for i in range(nx-1), j in range(ny-1), the connections are made for i in
\* range(nx), j in range(ny); a key that is not in self.compartments raises
\* KeyError
CompartmentArray2D(array_ID, x_pos, y_pos, conn_type, periodic) ==
    LET nx == Len(x_pos) - 1
        ny == Len(y_pos) - 1
        keys == { <<i, j>> : i \in 0..(nx - 2), j \in 0..(ny - 2) }
        calls == Calls2D(nx, ny, periodic)
        wired == Wire([k \in keys |-> <<>>], calls)
    IN  IF \E c \in DOMAIN calls : calls[c][1] \notin keys \/ calls[c][2] \notin keys
        THEN [pc |-> "raised", error |-> "KeyError"]
        ELSE [pc |-> "returned", error |-> "",
              self |-> [array_ID |-> array_ID, nx |-> nx, ny |-> ny,
                        n_compartments |-> nx * ny,
                        box_len |-> <<x_pos[Len(x_pos)] - x_pos[1],
                                      y_pos[Len(y_pos)] - y_pos[1]>>,
                        periodic |-> periodic,
                        compartments |->
                            [k \in keys |->
                                [ID |-> k,
                                 pos |-> << <<x_pos[k[1] + 1], x_pos[k[1] + 2]>>,
                                            <<y_pos[k[2] + 1], y_pos[k[2] + 2]>> >>,
                                 connections |-> wired[k]]]]]

\* the call CompartmentArray2D(array_ID, x_pos, y_pos, conn_type, periodic)
CallNewArray2D ==
    /\ obj.pc = "call"
    /\ obj.fn = "CompartmentArray2D"
    /\ obj' = [fn |-> obj.fn, args |-> obj.args] @@
              CompartmentArray2D(obj.args.array_ID, obj.args.x_pos, obj.args.y_pos,
                                 obj.args.conn_type, obj.args.periodic)
    /\ UNCHANGED <<flat, state, gsys, gil, osys, run, model, heap, fl, rep>>

\* all connect calls of CompartmentArray1D.__init__ in program order
\* (lines 84-91), as pairs (key of the compartment, key of the other one)
Calls1DNoBack(n, periodic) ==
    Flatten([c \in 1..n |->
        IF c - 1 < n - 1 THEN << <<c - 1, c>> >> ELSE <<>>])
    \o (IF periodic THEN << <<0, n - 1>>, <<n - 1, 0>> >> ELSE <<>>)

Calls1D(n, periodic) ==
    Flatten([c \in 1..n |->
        (IF c - 1 > 0     THEN << <<c - 1, c - 2>> >> ELSE <<>>) \o
        (IF c - 1 < n - 1 THEN << <<c - 1, c>> >>     ELSE <<>>)])
    \o (IF periodic THEN << <<0, n - 1>>, <<n - 1, 0>> >> ELSE <<>>)

\* CompartmentArray1D.__init__ (lines 67-91): one compartment per pair of
\* consecutive positions, keyed by its index; a key that is not in
\* self.compartments raises KeyError
CompartmentArray1D(array_ID, positions, conn_type, periodic) ==
    LET n == Len(positions) - 1
        keys == 0..(n - 1)
        calls == Calls1D(n, periodic)
        wired == Wire([k \in keys |-> <<>>], calls)
    IN  IF \E c \in DOMAIN calls : calls[c][1] \notin keys \/ calls[c][2] \notin keys
        THEN [pc |-> "raised", error |-> "KeyError"]
        ELSE [pc |-> "returned", error |-> "",
              self |-> [array_ID |-> array_ID, n_compartments |-> n,
                        box_len |-> <<positions[Len(positions)] - positions[1]>>,
                        periodic |-> periodic,
                        compartments |->
                            [k \in keys |->
                                [ID |-> k,
                                 pos |-> << <<positions[k + 1], positions[k + 2]>> >>,
                                 connections |-> wired[k]]]]]

\* the call CompartmentArray1D(array_ID, positions, conn_type, periodic)
CallNewArray1D ==
    /\ obj.pc = "call"
    /\ obj.fn = "CompartmentArray1D"
    /\ obj' = [fn |-> obj.fn, args |-> obj.args] @@
              CompartmentArray1D(obj.args.array_ID, obj.args.positions,
                                 obj.args.conn_type, obj.args.periodic)
    /\ UNCHANGED <<flat, state, gsys, gil, osys, run, model, heap, fl, rep>>

\* ---- CompartmentArray3D.join3D (arrays.py 299-368) ---------------------
\* append_side[0] and append_side[1]
SideAxis(append_side) ==
    CASE append_side \in {"x-", "x+"} -> 1
      [] append_side \in {"y-", "y+"} -> 2
      [] append_side \in {"z-", "z+"} -> 3

SidePlus(append_side) == append_side \in {"x+", "y+", "z+"}

\* an array as join3D reads it: nx, ny, nz and where its compartments are
\* among the objects
Array3D(nx, ny, nz, base) == [nx |-> nx, ny |-> ny, nz |-> nz, base |-> base]

Dims(a) == <<a.nx, a.ny, a.nz>>

\* face1 and face2 of lines 319-327
FaceShape(a, append_side) ==
    CASE SideAxis(append_side) = 1 -> <<a.ny, a.nz>>
      [] SideAxis(append_side) = 2 -> <<a.nx, a.nz>>
      [] SideAxis(append_side) = 3 -> <<a.nx, a.ny>>

\* the key with index a along the joined axis and (p, q) in the face
FaceKey(ax, a, p, q) ==
    CASE ax = 1 -> <<a, p, q>>
      [] ax = 2 -> <<p, a, q>>
      [] ax = 3 -> <<p, q, a>>

CellOf(a, key) == a.base + CellIndex(a.ny, a.nz, key[1], key[2], key[3])

\* mutant: only this array's cells are connected to the other array's
JoinCallsOneWay(self, other_array, append_side) ==
    LET ax == SideAxis(append_side)
        ind1 == IF SidePlus(append_side) THEN Dims(self)[ax] - 1 ELSE 0
        ind2 == IF SidePlus(append_side) THEN 0 ELSE Dims(other_array)[ax] - 1
        np == FaceShape(self, append_side)[1]
        nq == FaceShape(self, append_side)[2]
    IN  Flatten([n \in 1..(np * nq) |->
            << << CellOf(self, FaceKey(ax, ind1, (n - 1) \div nq, (n - 1) % nq)),
                  CellOf(other_array, FaceKey(ax, ind2, (n - 1) \div nq, (n - 1) % nq)) >> >>])

\* the connect calls of lines 334-368, as pairs of object indices
JoinCalls(self, other_array, append_side) ==
    LET ax == SideAxis(append_side)
        ind1 == IF SidePlus(append_side) THEN Dims(self)[ax] - 1 ELSE 0
        ind2 == IF SidePlus(append_side) THEN 0 ELSE Dims(other_array)[ax] - 1
        np == FaceShape(self, append_side)[1]
        nq == FaceShape(self, append_side)[2]
    IN  Flatten([n \in 1..(np * nq) |->
            LET c1 == CellOf(self, FaceKey(ax, ind1, (n - 1) \div nq, (n - 1) % nq))
                c2 == CellOf(other_array, FaceKey(ax, ind2, (n - 1) \div nq, (n - 1) % nq))
            IN  << <<c1, c2>>, <<c2, c1>> >>])

\* join3D on the compartment objects objs of the two arrays
join3D(objs, self, other_array, conn_type, append_side) ==
    IF append_side \notin {"x-", "x+", "y-", "y+", "z-", "z+"}
    THEN [pc |-> "raised", error |-> "AssertionError", objs |-> objs]
    ELSE IF FaceShape(self, append_side) # FaceShape(other_array, append_side)
    THEN [pc |-> "raised", error |-> "ValueError", objs |-> objs]
    ELSE [pc |-> "returned", error |-> "",
          objs |-> ApplyConnects(objs, JoinCalls(self, other_array, append_side),
                                 conn_type, 0)]

\* positions 0, 2, .. of an axis of n cells
Grid(n) == [i \in 1..(n + 1) |-> 2 * (i - 1)]

\* the objects of array "a" of shape d1 followed by those of array "b" of
\* shape d2; connection 1 joins the cells within an array
TwoArrays(d1, d2) ==
    CompartmentArray3D("a", Grid(d1[1]), Grid(d1[2]), Grid(d1[3]), 1,
                       <<FALSE, FALSE, FALSE>>, 0).objs
    \o CompartmentArray3D("b", Grid(d2[1]), Grid(d2[2]), Grid(d2[3]), 1,
                          <<FALSE, FALSE, FALSE>>, d1[1] * d1[2] * d1[3]).objs

\* the call a.join3D(b, conn_type, append_side)
CallJoin3D ==
    /\ obj.pc = "call"
    /\ obj.fn = "join3D"
    /\ obj' = [fn |-> obj.fn, args |-> obj.args] @@
              LET d1 == obj.args.self
                  d2 == obj.args.other_array
              IN  join3D(TwoArrays(d1, d2),
                         Array3D(d1[1], d1[2], d1[3], 0),
                         Array3D(d2[1], d2[2], d2[3], d1[1] * d1[2] * d1[3]),
                         obj.args.conn_type, obj.args.append_side)
    /\ UNCHANGED <<flat, state, gsys, gil, osys, run, model, heap, fl, rep>>

\* a second reaction object with the ID of RxnDeg
RxnDegFast == Rxn("deg", <<"A">>, <<1>>, <<>>, <<>>, 2, 0, <<0, 0>>)
RxnCatalogue == { RxnDeg, RxnDegFast, RxnRev }
RxnArgs == { <<RxnDeg, RxnDeg>>, <<RxnDeg, RxnDegFast>>, <<RxnRev, RxnDeg>>,
             <<RxnDegFast, RxnRev>> }
FlatTargets == { <<"a-0">>, <<"a-0", "a-1">>, <<"a-1", "zz", "a-0">>, <<"a-1", "a-1">> }
MaxRxns == 4
MaxFlat == 2

\* ---- adding reactions to compartments ------------------------------------
\* CompartmentArray.add_rxn_to_array on the compartments objs[i], i in array
add_rxn_to_array(objs, array, rxn) ==
    [i \in DOMAIN objs |->
        IF i \in Range(array) THEN add_rxn_to_compartment(objs[i], rxn) ELSE objs[i]]

\* FlatModel.add_rxn(rxn, compartments) with a list of IDs: the assert of
\* line 242 ends the loop at the first ID that is not a key, the
\* compartments before it have the reaction
RECURSIVE add_rxn(_, _, _)
add_rxn(fm, rxn, comp_list) ==
    IF comp_list = <<>> THEN fm
    ELSE IF comp_list[1] \notin Keys(fm.comps)
    THEN [fm EXCEPT !.error = "AssertionError", !.tag = comp_list[1]]
    ELSE add_rxn([fm EXCEPT !.comps =
                     [k \in DOMAIN fm.comps |->
                         IF fm.comps[k].ID.v = comp_list[1]
                         THEN add_rxn_to_compartment(fm.comps[k], rxn)
                         ELSE fm.comps[k]]],
                 rxn, Tail(comp_list))

\* compartments='all': the keys of the FlatModel in insertion order
AllKeys(fm) == [k \in DOMAIN fm.comps |-> fm.comps[k].ID.v]

NewFlatModel == [error |-> "", tag |-> "", comps |-> <<>>]

\* c.add_rxn_to_compartment(rxn)
RxnAddToCompartment ==
    /\ obj.pc = "built"
    /\ \E i \in DOMAIN obj.objs, rxn \in RxnCatalogue :
          /\ Len(obj.objs[i].reactions) < MaxRxns
          /\ obj' = [obj EXCEPT !.objs[i] = add_rxn_to_compartment(@, rxn)]
    /\ UNCHANGED <<flat, state, gsys, gil, osys, run, model, heap, fl, rep>>

\* c.add_rxns_to_compartment(rxns)
RxnsAddToCompartment ==
    /\ obj.pc = "built"
    /\ \E i \in DOMAIN obj.objs, rxns \in RxnArgs :
          /\ Len(obj.objs[i].reactions) + Len(rxns) <= MaxRxns
          /\ obj' = [obj EXCEPT !.objs[i] = add_rxns_to_compartment(@, rxns)]
    /\ UNCHANGED <<flat, state, gsys, gil, osys, run, model, heap, fl, rep>>

\* array.add_rxn_to_array(rxn)
RxnAddToArray ==
    /\ obj.pc = "built"
    /\ \E rxn \in RxnCatalogue :
          /\ \A i \in Range(obj.array) : Len(obj.objs[i].reactions) < MaxRxns
          /\ obj' = [obj EXCEPT !.objs = add_rxn_to_array(@, obj.array, rxn)]
    /\ UNCHANGED <<flat, state, gsys, gil, osys, run, model, heap, fl, rep>>

\* flat = FlatModel()
RxnNewFlatModel ==
    /\ obj.pc = "built"
    /\ obj.flat # NewFlatModel
    /\ obj' = [obj EXCEPT !.flat = NewFlatModel]
    /\ UNCHANGED <<flat, state, gsys, gil, osys, run, model, heap, fl, rep>>

\* flat.add_compartment(c): the FlatModel holds c.copy(ID=newID,
\* delete_array_ID=True); a duplicate ID raises and leaves it as it was
RxnCopy ==
    /\ obj.pc = "built"
    /\ Len(obj.flat.comps) < MaxFlat
    /\ \E i \in DOMAIN obj.objs :
          obj' = [obj EXCEPT !.flat =
                     add_compartment([@ EXCEPT !.error = "", !.tag = ""], obj.objs[i])]
    /\ UNCHANGED <<flat, state, gsys, gil, osys, run, model, heap, fl, rep>>

\* flat.add_rxn(rxn, compartments)
RxnFlatAdd ==
    /\ obj.pc = "built"
    /\ obj.flat.comps # <<>>
    /\ \E rxn \in RxnCatalogue, all \in BOOLEAN, ids \in FlatTargets :
          /\ \A k \in DOMAIN obj.flat.comps : Len(obj.flat.comps[k].reactions) < MaxRxns - 1
          /\ obj' = [obj EXCEPT !.flat =
                        add_rxn([@ EXCEPT !.error = "", !.tag = ""], rxn,
                                IF all THEN AllKeys(@) ELSE ids)]
    /\ UNCHANGED <<flat, state, gsys, gil, osys, run, model, heap, fl, rep>>

\* ---- Model.add_array (model.py 40-61) -----------------------------------
\* A box_len is a Python list, an object: lists holds the lists that exist,
\* an array and the model name theirs by its index.
EmptyModel == [periodic |-> None, box_len |-> None, arrays |-> <<>>]

\* lines 50-57 from axis i on: the first axis that differs and is periodic
\* raises, an axis that differs and is not periodic is stacked in place
RECURSIVE StackFrom(_, _, _, _)
StackFrom(mine, theirs, periodic, i) ==
    IF i > Len(theirs) THEN [error |-> "", box_len |-> mine]
    ELSE IF mine[i] # theirs[i]
    THEN IF periodic[i]
         THEN [error |-> "ValueError: different size along a periodic dimension",
               box_len |-> mine]
         ELSE StackFrom([mine EXCEPT ![i] = @ + theirs[i]], theirs, periodic, i + 1)
    ELSE StackFrom(mine, theirs, periodic, i + 1)

add_array(self, lists, array) ==
    LET periodic == IF self.periodic = None THEN List(array.periodic) ELSE self.periodic
        incompatible == self.periodic # None /\ self.periodic # List(array.periodic)
        box_len == IF self.box_len = None THEN array.box_len ELSE self.box_len
        stacked == IF self.box_len = None
                   THEN [error |-> "", box_len |-> lists[array.box_len.ix]]
                   ELSE StackFrom(lists[self.box_len.ix], lists[array.box_len.ix],
                                  periodic.v, 1)
        lists1 == [lists EXCEPT ![box_len.ix] = stacked.box_len]
        self1 == [self EXCEPT !.periodic = periodic, !.box_len = box_len]
        duplicate == \E a \in DOMAIN self.arrays : self.arrays[a].array_ID = array.array_ID
    IN  IF incompatible
        THEN [pc |-> "raised", error |-> "ValueError: incompatible periodicity",
              self |-> self, lists |-> lists]
        ELSE IF stacked.error # ""
        THEN [pc |-> "raised", error |-> stacked.error, self |-> self1, lists |-> lists1]
        ELSE IF duplicate
        THEN [pc |-> "raised", error |-> "ValueError: Duplicate array ID",
              self |-> self1, lists |-> lists1]
        ELSE [pc |-> "returned", error |-> "",
              self |-> [self1 EXCEPT !.arrays = Append(@, array)], lists |-> lists1]

\* an array as add_array reads it; its box_len is the list
\* lists[box_len.ix]
ArrayOf(array_ID, periodic, box_len) ==
    [array_ID |-> array_ID, periodic |-> periodic, box_len |-> box_len]

\* Model(arrays=[first]) for the call m.add_array(second) of obj
ModelOfFirst(args) ==
    add_array(EmptyModel, <<args.first_box_len, args.box_len>>,
              ArrayOf("a", args.first_periodic, Ref("lists", 1)))

\* the call m.add_array(second) on m = Model(arrays=[first])
CallAddArray ==
    /\ obj.pc = "call"
    /\ obj.fn = "add_array"
    /\ obj' = [fn |-> obj.fn, args |-> obj.args] @@
              add_array(ModelOfFirst(obj.args).self, ModelOfFirst(obj.args).lists,
                        ArrayOf(obj.args.array_ID, obj.args.periodic, Ref("lists", 2)))
    /\ UNCHANGED <<flat, state, gsys, gil, osys, run, model, heap, fl, rep>>

(***************************************************************************)
(* Specification of a Gillespie system: construction, set_q, propagation   *)
(***************************************************************************)
GRxnLists == { <<>>, <<RxnDimer, RxnDeg>>, <<RxnRev>>, <<RxnBirth, RxnDeg>> }

\* the FlatModels a Gillespie system is built from: reactions only; reactions
\* and transport in both directions; transport in one direction; transport
\* only, in both directions
GModels ==
    { MkFlat(rl1, <<>>, NoVolume, NoVolume, "none", ConnDivA) : rl1 \in GRxnLists }
    \cup
    { MkFlat(rl1, <<RxnDeg>>, v, v, "both", ConnDivA) :
          rl1 \in {<<>>, <<RxnRev>>, <<RxnBirth, RxnDeg>>, <<RxnDimerL, RxnDeg>>},
          v \in {NoVolume, Volume(2, 1)} }
    \cup
    { MkFlat(<<RxnRev>>, <<>>, Volume(2, 1), Volume(2, 1), "both", ConnDivAB) }
    \cup
    { MkFlat(rl1, <<>>, v, v, "both", ConnAnisoA) :
          rl1 \in {<<RxnDimer, RxnDeg>>, <<RxnRev>>}, v \in {Volume(2, 0), Volume(2, 1)} }
    \cup
    { MkFlat(<<>>, rl2, Volume(2, 1), Volume(2, 1), "oneway", ConnDivA) :
          rl2 \in {<<>>, <<RxnDeg>>} }
    \cup
    { MkFlat(<<>>, <<>>, Volume(2, 1), Volume(2, 1), "both", conn) :
          conn \in {ConnDivA, ConnDivAB} }
    \cup
    { MkFlat(<<>>, <<>>, Volume(2, 0), Volume(2, 0), "both", ConnAnisoA) }

Init ==
    /\ flat \in GModels
    /\ state = NoState
    /\ gsys = NoSys
    /\ gil = Idle
    /\ osys = NoODE
    /\ run = NoRun
    /\ model = NoModel
    /\ heap = <<>>
    /\ fl = NoFlatten
    /\ rep = NoReporter
    /\ obj = NoObject

Next ==
    \/ NewGillespieSystem
    \/ GSetQ
    \/ GCall
    \/ GFire
    \/ GZeroSum
    \/ GReturn

Spec == Init /\ [][Next]_vars

(***************************************************************************)
(* Specification of State construction over the FlatModel family           *)
(***************************************************************************)
InitState ==
    /\ flat \in FlatModels
    /\ state = NoState
    /\ gsys = NoSys
    /\ gil = Idle
    /\ osys = NoODE
    /\ run = NoRun
    /\ model = NoModel
    /\ heap = <<>>
    /\ fl = NoFlatten
    /\ rep = NoReporter
    /\ obj = NoObject

NextState == NewState

SpecState == InitState /\ [][NextState]_vars

(***************************************************************************)
(* Specification of ODE system construction                                *)
(***************************************************************************)
\* a compartment next to a Reservoir
MkRes(rl1, v1, conn, keys) ==
    << Comp("c1", v1, rl1, << Edge("res", conn) >>), Reservoir("res", keys) >>

\* compartments holding a reaction with identical sides, alone or next to a
\* degradation, with and without transport
NullModels ==
    { MkFlat(<<r>> \o more, rl2, v, v, topo, ConnAnisoA) :
          r \in NullRxns, more \in {<<>>, <<RxnDeg>>}, rl2 \in {<<>>, <<RxnRev>>},
          v \in {NoVolume, Volume(2, 3)}, topo \in {"none", "both"} }

OModels ==
    FlatModels
    \cup
    { MkFlat(<<RxnDimerM>>, rl2, v, v, topo, ConnAnisoA) :
          rl2 \in {<<>>, <<RxnRev>>}, v \in {Volume(2, 1), Volume(2, 3)},
          topo \in {"none", "both"} }
    \cup
    { MkRes(rl1, v, conn, keys) :
          rl1 \in {<<>>, <<RxnRev>>}, v \in {NoVolume, Volume(2, 3)},
          conn \in {ConnAnisoA, ConnDivA, ConnDivA3}, keys \in SUBSET {"A"} }
    \cup
    NullModels

InitODE ==
    /\ flat \in OModels
    /\ state = NoState
    /\ gsys = NoSys
    /\ gil = Idle
    /\ osys = NoODE
    /\ run = NoRun
    /\ model = NoModel
    /\ heap = <<>>
    /\ fl = NoFlatten
    /\ rep = NoReporter
    /\ obj = NoObject

NextODE == NewODESystem

SpecODE == InitODE /\ [][NextODE]_vars

(***************************************************************************)
(* Specification of Model.flatten                                          *)
(***************************************************************************)
\* grid lines of the arrays: cells of width 2 along x and z, of width 2 or 4
\* along y
XGrids == { <<0, 2>>, <<0, 2, 4>>, <<0, 2, 4, 6>> }
YGrids == { <<0, 2>>, <<0, 4>>, <<0, 4, 8>> }
ZGrid == <<0, 2>>

DA == [s \in {"A"} |-> DiffusionConstant(1)]

\* the connection objects an author hands over: a FicksConnection without
\* and with its geometry, and a connection that needs no resolution
FicksBare == FicksConnection(<<"A">>, DA, None, None, 3)
FicksGiven == FicksConnection(<<"A">>, DA, Area(4), Length(2), 3)
AuthoredConns == { FicksBare, FicksGiven, ConnAnisoA }

\* Model(arrays=[CompartmentArray3D("a", ...)])
ArrayModel(x_pos, y_pos, periodic) ==
    LET a == CompartmentArray3D("a", x_pos, y_pos, ZGrid, 1, periodic, 0)
    IN  NewModel(a.objs, <<a>>, <<>>)

UnitCube(x0) == << <<x0, x0 + 2>>, <<0, 2>>, <<0, 2>> >>
CubeAreas == [xy |-> Area(4), yz |-> Area(4), xz |-> Area(4)]

\* a stand-alone compartment of one of three kinds
StandAlone(kind, ID, x0) ==
    CASE kind = "plain"  -> NewCompartment(ID, <<>>, None, NoVolume)
      [] kind = "3D"     -> NewCompartment3D(ID, UnitCube(x0), None, CubeAreas)
      [] kind = "3Dbare" -> NewCompartment3D(ID, UnitCube(x0), None, None)

Kinds == { "plain", "3D", "3Dbare" }

\* Model(compartments=[c1, c2(, c3)]): c1 is connected to c2 (and c2 to c1
\* when both directions are authored), c1 possibly also to a compartment g
\* that is not added to the model; c3 is unconnected, with an ID of its own
\* or the integer 1 next to c1's ID "1"
PairModel(kind, both, ghost, third) ==
    LET g  == NewCompartment(StrID("g"), <<>>, None, NoVolume)
        c2 == StandAlone(kind, StrID("2"), 2)
        c1 == add_rxns_to_compartment(StandAlone(kind, StrID("1"), 0), <<RxnDeg>>)
        c3 == NewCompartment(IF third = "dup" THEN IntID(1) ELSE StrID("3"),
                             <<>>, None, NoVolume)
        c1a == connect(c1, c2, Ref("model", 2), 1)
        c1b == IF ghost THEN connect(c1a, g, Ref("model", 3), 2) ELSE c1a
        c2a == IF both THEN connect(c2, c1, Ref("model", 1), 1) ELSE c2
    IN  NewModel(<<c1b, c2a, g, c3>>, <<>>,
                 IF third = "none" THEN <<1, 2>> ELSE <<1, 2, 4>>)

ResBare(face) == ResConnection(<<"A">>, DA, None, None, 3, face)
ResGiven == ResConnection(<<"A">>, DA, Area(4), Length(2), 3, "None")
ResConns == { ResBare("None"), ResBare("x"), ResBare("y"), ResGiven }

\* Model(compartments=[c1(, res)]): c1 is connected to the Reservoir res and
\* possibly to g; res possibly to h; g and h are not added to the model
ResModel(kind, added, ghost, res_ghost) ==
    LET g   == NewCompartment(StrID("g"), <<>>, None, NoVolume)
        h   == NewCompartment(StrID("h"), <<>>, None, NoVolume)
        res == NewReservoir(StrID("res"), None, <<"A">>)
        c1  == StandAlone(kind, StrID("1"), 0)
        c1a == connect(c1, res, Ref("model", 2), 1)
        c1b == IF ghost THEN connect(c1a, g, Ref("model", 3), 2) ELSE c1a
        r1  == IF res_ghost THEN connect(res, h, Ref("model", 4), 2) ELSE res
    IN  NewModel(<<c1b, r1, g, h>>, <<>>, IF added THEN <<1, 2>> ELSE <<1>>)

\* a periodic box with two cubes in it: Model(arrays=[a], compartments=[c1,
\* c2]) where a spans [0, 8] x [0, 8] x [0, 2] and the cubes c1, c2 of width
\* 2 sit at xa and xb along the axis ax; c1 is connected to c2 by a
\* FicksConnection of its own with the area given and the distance left out
FicksNoDistance == FicksConnection(<<"A">>, DA, Area(4), None, 3)
BoxGrid == <<0, 4, 8>>
CubeOffsets == { 0, 2, 4, 6 }

CubeAt(ax, x0) ==
    [i \in 1..3 |-> IF i = ax THEN <<x0, x0 + 2>> ELSE <<0, 2>>]

BoxModel(ax, xa, xb, periodic) ==
    LET a  == CompartmentArray3D("a", BoxGrid, BoxGrid, ZGrid, 1, periodic, 2)
        c2 == NewCompartment3D(StrID("2"), CubeAt(ax, xb), None, CubeAreas)
        c1 == connect(NewCompartment3D(StrID("1"), CubeAt(ax, xa), None, CubeAreas),
                      c2, Ref("model", 2), 2)
    IN  NewModel(<<c1, c2>> \o a.objs, <<a>>, <<1, 2>>)

InitFlatten ==
    /\ flat = <<>>
    /\ state = NoState
    /\ gsys = NoSys
    /\ gil = Idle
    /\ osys = NoODE
    /\ run = NoRun
    /\ fl = NoFlatten
    /\ rep = NoReporter
    /\ obj = NoObject
    /\ \/ \E x_pos \in XGrids, y_pos \in YGrids, px \in BOOLEAN, conn \in AuthoredConns :
              /\ model = ArrayModel(x_pos, y_pos, <<px, FALSE, FALSE>>)
              /\ heap = <<conn>>
       \/ \E kind \in Kinds, both \in BOOLEAN, ghost \in BOOLEAN,
             third \in {"none", "own", "dup"}, conn \in AuthoredConns :
              /\ model = PairModel(kind, both, ghost, third)
              /\ heap = <<conn, ConnAnisoA>>
       \/ \E kind \in {"plain", "3D"}, added \in BOOLEAN, ghost \in BOOLEAN,
             res_ghost \in BOOLEAN, conn \in ResConns :
              /\ model = ResModel(kind, added, ghost, res_ghost)
              /\ heap = <<conn, ConnAnisoA>>
       \/ \E ax \in {1, 2}, xa \in CubeOffsets, xb \in CubeOffsets,
             px \in BOOLEAN, py \in BOOLEAN :
              /\ xa # xb
              /\ model = BoxModel(ax, xa, xb, <<px, py, FALSE>>)
              /\ heap = <<ConnAnisoA, FicksNoDistance>>

NextFlatten ==
    \/ FlattenCall
    \/ FlattenItem
    \/ FlattenReturn

SpecFlatten == InitFlatten /\ [][NextFlatten]_vars

(***************************************************************************)
(* Specification of the simulation driver                                  *)
(***************************************************************************)
InitRun ==
    /\ flat = MkFlat(<<RxnBirth, RxnDeg>>, <<>>, NoVolume, NoVolume, "none", ConnAnisoA)
    /\ state = NoState
    /\ gsys = NoSys
    /\ gil = Idle
    /\ osys = NoODE
    /\ run = NoRun
    /\ model = NoModel
    /\ heap = <<>>
    /\ fl = NoFlatten
    /\ rep = NoReporter
    /\ obj = NoObject

NextRun ==
    \/ RunCall
    \/ RunSegment
    \/ RunSegmentRaises
    \/ RunReturn

SpecRun == InitRun /\ [][NextRun]_vars

(***************************************************************************)
(* Specification of a reporter attached to a system                        *)
(***************************************************************************)
InitReport ==
    /\ flat = <<>>
    /\ state = NoState
    /\ gsys = NoSys
    /\ gil = Idle
    /\ osys = NoODE
    /\ run = NoRun
    /\ model = NoModel
    /\ heap = <<>>
    /\ fl = NoFlatten
    /\ obj = NoObject
    /\ \E cls \in ReporterClasses, sel \in Selections, vec \in StateVecs :
           rep = [pc |-> "attached", reporter |-> NewReporter(cls, sel, 1),
                  arrays |-> <<vec>>, q_val |-> 1, t |-> 0]

NextReport ==
    \/ ReporterReport
    \/ ReporterPropagate
    \/ ReporterSetQ

SpecReport == InitReport /\ [][NextReport]_vars

\* a system whose reporter is an AllReporter
InitAllReport == InitReport /\ rep.reporter.cls = "AllReporter"

SpecAllReport == InitAllReport /\ [][NextReport]_vars

(***************************************************************************)
(* Specification of calls of constructors and methods                      *)
(***************************************************************************)
\* the values of a species_rates dict
RateValues ==
    { RateQ(1, "s", 0), RateQ(2, "ms", 0), RateQ(1, "s", 1), RateQ(2, "s", 3),
      RateNumber(1),
      RateTuple(<<RateQ(1, "s", 0), RateQ(2, "s", 0)>>),
      RateTuple(<<RateQ(2, "s", 1), RateQ(2, "ms", 1)>>),
      RateTuple(<<RateQ(1, "s", 0)>>),
      RateTuple(<<RateQ(1, "s", 0), RateQ(1, "s", 0), RateQ(1, "s", 0)>>) }

\* species_rates dicts over the keys 'A' and 'B'
RateDicts ==
    { [keys |-> keys, values |-> values] :
          keys \in {<<>>}, values \in {<<>>} }
    \cup
    UNION { { [keys |-> keys, values |-> values] : values \in [Range(keys) -> RateValues] } :
            keys \in { <<"A">>, <<"A", "B">> } }

ConnectionCalls ==
    { [pc |-> "call", fn |-> "Connection",
       args |-> [cls |-> cls, keys |-> d.keys, species_rates |-> d.values, dim |-> dim]] :
          cls \in ConnectionClasses, d \in RateDicts, dim \in {1, 3} }

\* the compartments a compartment is connected to: two cells of an array
\* 'a' and two stand-alone compartments
Neighbours ==
    << NewCompartment(IntID(0), <<>>, StrID("a"), NoVolume),
       NewCompartment(IntID(1), <<>>, StrID("a"), NoVolume),
       NewCompartment(StrID("x"), <<>>, None, NoVolume),
       NewCompartment(StrID("y"), <<>>, None, NoVolume) >>

\* the lists of up to three distinct neighbours, in the order connected
NeighbourLists ==
    { l \in UNION { [1..n -> DOMAIN Neighbours] : n \in 0..3 } :
          \A i \in DOMAIN l, j \in DOMAIN l : i # j => l[i] # l[j] }

\* c = Compartment('c'); c.connect(n, conn) for each n of the list
RECURSIVE Connected(_, _)
Connected(c, l) ==
    IF l = <<>> THEN c
    ELSE Connected(connect(c, Neighbours[l[1]], Ref("model", l[1]), 1), Tail(l))

RemoveCall(l, n) ==
    [pc |-> "call", fn |-> "remove_connection",
     args |-> [self |-> Connected(NewCompartment(StrID("c"), <<>>, None, NoVolume), l),
               other_compartment |-> Neighbours[n]]]

\* the arguments of Reaction(...)
ReactantLists == { <<>>, <<Sp("A")>>, <<Sp("A"), Sp("B")>>, <<Str("A")>> }
StoichLists == { <<>>, <<1>>, <<2>>, <<1, 1>> }
ForwardRates ==
    { RxnNumber(0), RxnNumber(1), RxnNumber(0 - 1),
      RxnQ(1, <<0, 0>>, "s"), RxnQ(2, <<0, 0>>, "ms"), RxnQ(0 - 1, <<0, 0>>, "s"),
      RxnQ(1, <<3, 0 - 1>>, "s"), RxnQ(1, <<1, 0>>, "s") }
ReverseRates == { RxnNumber(0), RxnQ(1, <<0, 0>>, "s"), RxnQ(1, <<1, 0>>, "s") }

ReactionCalls ==
    { [pc |-> "call", fn |-> "Reaction",
       args |-> [ID |-> "r", reactants |-> reactants, products |-> products,
                 stoich_r |-> stoich_r, stoich_p |-> stoich_p, kf |-> kf, kr |-> kr]] :
          reactants \in ReactantLists, stoich_r \in StoichLists,
          products \in { <<>>, <<Sp("B")>> }, stoich_p \in { <<>>, <<1>> },
          kf \in ForwardRates, kr \in ReverseRates }

MaxCells == 2
MaxArrayCells == 8

\* boundary lists of one to three cells per axis
Boundaries == { <<0, 2>>, <<0, 2, 4>>, <<0, 2, 4, 6>> }

Array2DCalls ==
    { [pc |-> "call", fn |-> "CompartmentArray2D",
       args |-> [array_ID |-> "a", x_pos |-> x_pos, y_pos |-> y_pos,
                 conn_type |-> ConnAnisoA, periodic |-> <<px, py>>]] :
          x_pos \in Boundaries, y_pos \in Boundaries, px \in BOOLEAN, py \in BOOLEAN }

\* boundary lists of zero to four cells, one of them not monotonic
Positions1D ==
    { <<0>>, <<0, 2>>, <<0, 2, 4>>, <<0, 2, 4, 6>>, <<0, 2, 4, 6, 8>>, <<0, 4, 2>> }

Array1DCalls ==
    { [pc |-> "call", fn |-> "CompartmentArray1D",
       args |-> [array_ID |-> "a", positions |-> positions,
                 conn_type |-> ConnAnisoA, periodic |-> periodic]] :
          positions \in Positions1D, periodic \in BOOLEAN }

\* shapes of up to MaxCells cells per axis and MaxArrayCells cells in all,
\* the six faces and a side that is none of them; connection 2 joins the
\* two arrays
Shapes3D ==
    { d \in (1..MaxCells) \X (1..MaxCells) \X (1..MaxCells) :
        d[1] * d[2] * d[3] <= MaxArrayCells }

Join3DCalls ==
    { [pc |-> "call", fn |-> "join3D",
       args |-> [self |-> d1, other_array |-> d2, conn_type |-> 2,
                 append_side |-> side]] :
          d1 \in Shapes3D, d2 \in Shapes3D,
          side \in {"x-", "x+", "y-", "y+", "z-", "z+", "w+"} }

\* the first array of the model is "a"; the second has the same or another
\* ID, periodicity and box lengths
BoxLens == { <<x, y, z>> : x \in {2, 4}, y \in {2, 4}, z \in {2, 4} }
Periodicities == { <<x, y, FALSE>> : x \in BOOLEAN, y \in BOOLEAN }

AddArrayCalls ==
    { [pc |-> "call", fn |-> "add_array",
       args |-> [first_periodic |-> p1, first_box_len |-> <<2, 2, 2>>,
                 array_ID |-> id, periodic |-> p2, box_len |-> b2]] :
          p1 \in Periodicities, p2 \in Periodicities, b2 \in BoxLens,
          id \in {"a", "b"} }

InitCalls ==
    /\ flat = <<>>
    /\ state = NoState
    /\ gsys = NoSys
    /\ gil = Idle
    /\ osys = NoODE
    /\ run = NoRun
    /\ model = NoModel
    /\ heap = <<>>
    /\ fl = NoFlatten
    /\ rep = NoReporter
    /\ \/ obj \in ConnectionCalls
       \/ obj \in ReactionCalls
       \/ obj \in Array2DCalls
       \/ obj \in Array1DCalls
       \/ obj \in Join3DCalls
       \/ obj \in AddArrayCalls
       \/ \E l \in NeighbourLists, n \in DOMAIN Neighbours : obj = RemoveCall(l, n)

NextCalls ==
    \/ CallNewConnection
    \/ CallRemoveConnection
    \/ CallNewReaction
    \/ CallNewArray2D
    \/ CallNewArray1D
    \/ CallJoin3D
    \/ CallAddArray

SpecCalls == InitCalls /\ [][NextCalls]_vars

(***************************************************************************)
(* Specification of the reactions of compartments: the two members of the  *)
(* array "a" and a FlatModel of their copies                               *)
(***************************************************************************)
InitRxns ==
    /\ flat = <<>>
    /\ state = NoState
    /\ gsys = NoSys
    /\ gil = Idle
    /\ osys = NoODE
    /\ run = NoRun
    /\ model = NoModel
    /\ heap = <<>>
    /\ fl = NoFlatten
    /\ rep = NoReporter
    /\ obj = [pc |-> "built",
              objs |-> << NewCompartment(IntID(0), <<>>, StrID("a"), NoVolume),
                          NewCompartment(IntID(1), <<>>, StrID("a"), NoVolume) >>,
              array |-> <<1, 2>>,
              flat |-> NewFlatModel]

NextRxns ==
    \/ RxnAddToCompartment
    \/ RxnsAddToCompartment
    \/ RxnAddToArray
    \/ RxnNewFlatModel
    \/ RxnCopy
    \/ RxnFlatAdd

SpecRxns == InitRxns /\ [][NextRxns]_vars


(***************************************************************************)
(* Claims                                                                  *)
(***************************************************************************)

\* C1: after every firing of the Gillespie propagator the incrementally
\* maintained propensity vector r equals, entry by entry, the vector
\* recomputed from scratch from the current state y.
C1_PropensityIntegrity ==
    (gil.pc \in {"loop", "returned"} /\ gil.fired = 1)
        => gil.r = AllPropensities(gsys.processes, gil.y)

\* C1 witness: a firing changed the state and the propensity of at least two
\* processes, while another process kept its entry
C1_Witness ==
    /\ gil.pc = "loop"
    /\ gil.fired = 1
    /\ \E i, j \in DOMAIN gil.r :
         /\ i # j
         /\ gil.r[i] # AllPropensities(gsys.processes, gil.y0)[i]
         /\ gil.r[j] # AllPropensities(gsys.processes, gil.y0)[j]

\* C2: when the total propensity is zero at the start of a step, the
\* propagator stops without raising, returns the state vector as it was and
\* reports the end of the interval as the time.
C2_ZeroPropensityStops ==
    [][ (gil.pc = "loop" /\ gil.t < gil.t1 /\ RSumZero(gil.r))
            => /\ gil'.pc = "returned"
               /\ gil'.y = gil.y
               /\ gil'.t = gil.t1
               /\ state'.q_val = gil.y ]_vars

\* C3: index[c][s] is defined iff s is a reactant or product of a reaction of
\* c or a key of the rate table of an outgoing connection of c; the defined
\* positions are exactly 0..size-1, none assigned twice; index[compartment[i]]
\* [species[i]] = i for every position i; species, compartment and q_val all
\* have length size.
ActiveIn(c, s) ==
    \/ \E j \in DOMAIN c.reactions :
         s \in Range(c.reactions[j].reactants) \cup Range(c.reactions[j].products)
    \/ \E e \in DOMAIN c.connections : s \in DOMAIN c.connections[e].conn.species_rates

IndexPairs(st) == { <<tag, s>> \in FlatTags(flat) \X AllSpecies : s \in DOMAIN st.index[tag] }

C3_StateIndex ==
    state.built =>
        /\ DOMAIN state.index = FlatTags(flat)
        /\ \A k \in DOMAIN flat : \A s \in AllSpecies :
             (s \in DOMAIN state.index[flat[k].ID]) <=> ActiveIn(flat[k], s)
        /\ { state.index[p[1]][p[2]] : p \in IndexPairs(state) } = 0..(state.size - 1)
        /\ \A p, q \in IndexPairs(state) :
             state.index[p[1]][p[2]] = state.index[q[1]][q[2]] => p = q
        /\ \A i \in 0..(state.size - 1) :
             /\ state.species[i + 1] \in DOMAIN state.index[state.compartment[i + 1]]
             /\ state.index[state.compartment[i + 1]][state.species[i + 1]] = i
        /\ Len(state.species) = state.size
        /\ Len(state.compartment) = state.size
        /\ Len(state.q_val) = state.size

\* C3 witness: a State with a species active only through a connection, one
\* active only as the product of a reaction, and an inactive (c, s) pair
C3_Witness ==
    /\ state.built
    /\ state.size >= 3
    /\ \E k \in DOMAIN flat : \E s \in AllSpecies :
         /\ s \in DOMAIN state.index[flat[k].ID]
         /\ \A j \in DOMAIN flat[k].reactions :
              s \notin Range(flat[k].reactions[j].reactants) \cup Range(flat[k].reactions[j].products)
    /\ \E k \in DOMAIN flat : \E s \in AllSpecies :
         /\ s \in DOMAIN state.index[flat[k].ID]
         /\ flat[k].connections = <<>>
         /\ \A j \in DOMAIN flat[k].reactions : s \notin Range(flat[k].reactions[j].reactants)
    /\ \E k \in DOMAIN flat : \E s \in AllSpecies : s \notin DOMAIN state.index[flat[k].ID]

\* C7: in the lists that _build_dqdt hands to DerivFuncBuilder, the sink of
\* species s over an edge of c has rate k_out / V_c when the connection is a
\* DivByVConnection and k_out otherwise, and the source from a neighbour
\* that is not a Reservoir has rate k_in / V_neighbour resp. k_in; both have
\* n_per 1 and the q_list [i] resp. [index[neighbour][s]].
C7_ODEConnectionRates ==
    (state.built /\ "lists" \in DOMAIN osys) =>
        \A p \in DOMAIN osys.lists :
            LET c == CompOf(flat, state.compartment[p])
                s == state.species[p]
                l == osys.lists[p]
                edges == EdgesWith(c, s)
                inner == SelectSeq(edges,
                             LAMBDA e : ~IsInstanceReservoir(CompOf(flat, e.label)))
                Want(conn, k, v) ==
                    IF conn.type = "DivByV" THEN RateOverVolume(conn, k, v)
                    ELSE StoredRate(conn, k)
            IN  /\ \A e \in DOMAIN edges :
                      LET t == l.sinks[Len(l.sinks) - Len(edges) + e]
                          conn == edges[e].conn
                      IN  /\ t.q_list = <<p - 1>>
                          /\ t.n_per = 1
                          /\ (conn.type = "DivByV" => c.volume.known)
                                => SameMag(t.rate, Want(conn, conn.species_rates[s][1], c.volume))
                /\ \A e \in DOMAIN inner :
                      LET t == l.sources[Len(l.sources) - Len(inner) + e]
                          conn == inner[e].conn
                          nb == CompOf(flat, inner[e].label)
                      IN  /\ t.q_list = <<state.index[nb.ID][s]>>
                          /\ t.n_per = 1
                          /\ (conn.type = "DivByV" => nb.volume.known)
                                => SameMag(t.rate, Want(conn, conn.species_rates[s][2], nb.volume))

\* C8: for every edge of a compartment c and every species s of its rate
\* table the Gillespie process table holds exactly one process with q_list
\* [(index[c][s], 1)] and deltas -1 at index[c][s], +1 at index[neighbour][s];
\* its rate is k_out / V_c for a DivByVConnection and k_out otherwise.
C8_DiffusionProcessRates ==
    gsys.built =>
        \A k \in DOMAIN flat : \A e \in DOMAIN flat[k].connections :
            LET c == flat[k]
                edge == c.connections[e]
            IN  \A s \in DOMAIN edge.conn.species_rates :
                    LET here == state.index[c.ID][s]
                        there == state.index[edge.label][s]
                        hits == { i \in DOMAIN gsys.processes :
                                    /\ gsys.processes[i].q_list = << <<here, 1>> >>
                                    /\ gsys.processes[i].delta_list =
                                           << <<here, 0 - 1>>, <<there, 1>> >> }
                        k_out == edge.conn.species_rates[s][1]
                    IN  /\ Cardinality(hits) = 1
                        /\ \A i \in hits :
                               RatEq(gsys.processes[i].rate,
                                     IF edge.conn.type = "DivByV"
                                     THEN [num |-> k_out, den |-> c.volume.mag]
                                     ELSE [num |-> k_out, den |-> 1])

\* the increasing sequence of the elements of a set of integers
RECURSIVE SortInts(_)
SortInts(S) ==
    IF S = {} THEN <<>>
    ELSE LET least == CHOOSE x \in S : \A y \in S : x <= y
         IN  <<least>> \o SortInts(S \ {least})

\* {0, t_end} united with the multiples k*f <= t_end of every period, sorted
ExactSchedule(t_end, freqs) ==
    SortInts({0, t_end}
             \cup UNION { { k * freqs[r] : k \in 0..(t_end \div freqs[r]) } :
                          r \in DOMAIN freqs })

\* C5: when run(t_end) returns, propagate has been called exactly once for
\* each pair of consecutive elements of the sorted duplicate-free set
\* {0, t_end} united with the multiples k*f <= t_end of every reporter's
\* period, in increasing order: the first segment starts at 0, each starts
\* where the previous one ended, the last ends at t_end.
C5_RunSchedule ==
    run.pc = "returned" =>
        LET e == ExactSchedule(run.total_time,
                               [r \in DOMAIN run.reporters |-> run.reporters[r].freq])
        IN  /\ Len(run.calls) = Len(e) - 1
            /\ \A j \in DOMAIN run.calls :
                   /\ run.calls[j][1].m = e[j]
                   /\ run.calls[j][2].m = e[j + 1]

\* C6: in every pass of run a reporter with period f is fired if and only if
\* the checkpoint t that ends the segment is a multiple of f, and the record
\* is stamped with that checkpoint; so when run returns the reporter holds
\* exactly one record for every positive multiple of f up to t_end, in
\* increasing order.
C6_ReporterFiring ==
    run.pc \in {"loop", "returned"} =>
        \A r \in DOMAIN run.reporters :
            LET f == run.reporters[r].freq
                passed == SubSeq(run.checkpoints, 2, run.i + 1)
                due == SelectSeq(passed, LAMBDA t : t.m % f = 0)
                recs == run.reporters[r].reports
            IN  /\ recs = [k \in DOMAIN due |-> [t |-> due[k]]]
                /\ run.pc = "returned" =>
                       [k \in DOMAIN recs |-> recs[k].t.m]
                           = [k \in 1..(run.total_time \div f) |-> k * f]

(***************************************************************************)
(* Claims about Model.flatten                                              *)
(***************************************************************************)
\* the Model and the connection objects as they were when flatten() was
\* called
Before == fl.before.model
HeapBefore == fl.before.heap

ModelComps(m) == Range(FlattenOrder(m))
TagsOf(c) == { c.connections[e].label : e \in DOMAIN c.connections }
FlatIds(m) == { make_ID(m.objs[ix].array_ID, m.objs[ix].ID) : ix \in ModelComps(m) }

\* the connection tags that are not the flat id of a compartment of the
\* model: of all its compartments, and of those that are copied with their
\* connections (a Reservoir's copy carries none)
MissingTags(m) == UNION { TagsOf(m.objs[ix]) : ix \in ModelComps(m) } \ FlatIds(m)
CopiedMissingTags(m) ==
    UNION { TagsOf(m.objs[ix]) :
                ix \in { k \in ModelComps(m) : m.objs[k].cls # "Reservoir" } }
        \ FlatIds(m)

\* two compartments of the model have the same flat id
HasDuplicateIds(m) ==
    \E i, j \in DOMAIN FlattenOrder(m) :
        /\ i # j
        /\ make_ID(m.objs[FlattenOrder(m)[i]].array_ID, m.objs[FlattenOrder(m)[i]].ID)
             = make_ID(m.objs[FlattenOrder(m)[j]].array_ID, m.objs[FlattenOrder(m)[j]].ID)

\* every connection key of every compartment is a key of the map
Closed(comps) == \A ci \in DOMAIN comps : TagsOf(comps[ci]) \subseteq Keys(comps)

Handled(ci, ei) ==
    \/ fl.pc = "returned"
    \/ fl.pc = "resolving" /\ (ci < fl.ci \/ (ci = fl.ci /\ ei < fl.ei))

\* the compartment of the model that the FlatModel's compartment ci copies
Original(ci) == Before.objs[FlattenOrder(Before)[ci]]

\* C9: every Ficks edge resolved by flatten() whose surface area and centre
\* distance the author did not supply gets, for each species s, the rate
\* D_s*A/dx with A the smaller of the two compartments' areas on the face
\* this pair shares and dx the centre-to-centre distance of this pair, also
\* when the edges share one FicksConnection object.
C9_FicksRateOfOwnPair ==
    fl.pc \in {"resolving", "returned"} =>
        \A ci \in DOMAIN fl.flatmodel :
            \A ei \in DOMAIN fl.flatmodel[ci].connections :
                LET c1 == Original(ci)
                    authored == c1.connections[ei]
                    conn == HeapBefore[authored.conn]
                    c2 == Before.objs[authored.other.ix]
                    resolved == heap[fl.flatmodel[ci].connections[ei].conn]
                IN  ( /\ Handled(ci, ei)
                      /\ conn.type = "Ficks"
                      /\ conn.surface_area = None
                      /\ conn.ic_distance = None
                      /\ AdjoiningFace(c1.pos, c2.pos) \in {"xy", "yz", "xz"} )
                    => /\ resolved.type = "DivByV"
                       /\ \A s \in Range(conn.keys) :
                            RatEq(resolved.species_rates[s][1],
                                  QDiv(QMul(conn.species_d_constants[s],
                                            SurfaceArea(c1, c2)),
                                       CentreDistance(Before, c1.pos, c2.pos)))

\* the item of compartment c under the tag, as a set (empty when absent)
ItemsTo(c, tag) ==
    { c.connections[e] : e \in { k \in DOMAIN c.connections : c.connections[k].label = tag } }

\* C10: after flatten(), for every Ficks edge authored from c1 to c2, the
\* FlatModel's copy of c1 carries the resolved DivByV connection on its edge
\* to c2, and the FlatModel's copy of c2 carries the same resolved
\* connection on its edge to c1, also when only c1 -> c2 was authored.
C10_FicksResolvedBothWays ==
    fl.pc = "returned" =>
        \A ci \in DOMAIN fl.flatmodel :
            \A ei \in DOMAIN Original(ci).connections :
                LET authored == Original(ci).connections[ei]
                    order == FlattenOrder(Before)
                IN  ( /\ HeapBefore[authored.conn].type = "Ficks"
                      /\ authored.other.ix \in Range(order) )
                    => LET cj == PosIn(order, authored.other.ix)
                           f1 == fl.flatmodel[ci]
                           f2 == fl.flatmodel[cj]
                       IN  /\ \E a \in ItemsTo(f1, f2.ID.v) :
                                 heap[a.conn].type = "DivByV"
                           /\ \E a \in ItemsTo(f1, f2.ID.v), b \in ItemsTo(f2, f1.ID.v) :
                                 heap[b.conn] = heap[a.conn]

Abs(n) == IF n < 0 THEN 0 - n ELSE n

\* C12: on every periodic axis the centre separation that Ficks resolution
\* uses for the distance of an edge is at most half the box length in
\* absolute value, for every pair of compartments inside the box: the
\* distance stored for the pair is the norm of separations whose doubles
\* are at most box_len in absolute value on each periodic axis.
C12_MinimumImage ==
    fl.pc \in {"resolving", "returned"} =>
        \A ci \in DOMAIN fl.flatmodel :
            \A ei \in DOMAIN fl.flatmodel[ci].connections :
                LET c1 == Original(ci)
                    authored == c1.connections[ei]
                    c2 == Before.objs[authored.other.ix]
                    dc2(i) == MinImage2(Separation2(c1.pos, c2.pos, i),
                                        Before.periodic.v[i], Before.box_len.v[i])
                IN  ( /\ Handled(ci, ei)
                      /\ HeapBefore[authored.conn] = FicksNoDistance )
                    => /\ \A i \in 1..3 :
                            Before.periodic.v[i] => Abs(dc2(i)) <= Before.box_len.v[i]
                       /\ heap[authored.conn].ic_distance =
                            Qty(Sqrt(dc2(1) * dc2(1) + dc2(2) * dc2(2) + dc2(3) * dc2(3)),
                                2, 1, 0, 0)

\* the edge of two cubes more than half a box apart along a periodic axis
\* has been resolved
C12_Witness ==
    /\ fl.pc = "returned"
    /\ HeapBefore = <<ConnAnisoA, FicksNoDistance>>
    /\ \E i \in 1..3 :
           /\ Before.periodic.v[i]
           /\ Abs(Separation2(Before.objs[1].pos, Before.objs[2].pos, i))
                  > Before.box_len.v[i]

\* C13: two Gillespie runs of the same system from the same state produce the
\* same sequence of (Q, t).  System.__init__ takes (flatmodel, init_state,
\* reporters) and GillespieSystem.__init__ passes its arguments through, so
\* no seed can be supplied at construction; the draws of lines 57 and 65 come
\* from the generator of the numpy module, which is no field of the System.
\* What two runs share is therefore the system and its state, and the
\* statement is that a pass of the loop has one outcome: every process and
\* dwell time the pass could have drawn gives the (y, t, r) it did give.
C13_SameSystemSameTrajectory ==
    [][ GFire =>
          \A i \in DOMAIN gil.r, dwell \in 1..MaxDwell :
              LET p == gsys.processes[i]
                  y1 == ApplyDeltas(gil.y, p.delta_list)
              IN  ( /\ gil.r[i].num > 0
                    /\ \A k \in DOMAIN y1 : y1[k] <= MaxQ )
                  => /\ gil'.y = y1
                     /\ gil'.t = gil.t + dwell ]_vars

\* C14: for two compartments c and n that are not Reservoirs and are wired in
\* both directions with one connection object, the transport terms of a
\* species s conserve its total: the sink that _build_dqdt lists at c's
\* position for the edge to n and the source it lists at n's position for
\* the edge to c multiply the same quantity Q[index[c][s]] by the same rate,
\* whether k_out and k_in are equal or not.
C14_TransportConserves ==
    (state.built /\ osys.built) =>
        \A p \in DOMAIN osys.lists, q \in DOMAIN osys.lists :
            LET c == CompOf(flat, state.compartment[p])
                n == CompOf(flat, state.compartment[q])
                s == state.species[p]
                out == EdgesWith(c, s)
                back == SelectSeq(EdgesWith(n, s),
                            LAMBDA e : ~IsInstanceReservoir(CompOf(flat, e.label)))
                lc == osys.lists[p]
                ln == osys.lists[q]
            IN  ( /\ state.species[q] = s
                  /\ c.ID # n.ID
                  /\ ~IsInstanceReservoir(c)
                  /\ ~IsInstanceReservoir(n) )
                => \A e \in DOMAIN out, b \in DOMAIN back :
                       ( /\ out[e].label = n.ID
                         /\ back[b].label = c.ID
                         /\ out[e].conn = back[b].conn )
                       => LET leaving == lc.sinks[Len(lc.sinks) - Len(out) + e]
                              arriving == ln.sources[Len(ln.sources) - Len(back) + b]
                          IN  /\ leaving.q_list = <<p - 1>>
                              /\ arriving.q_list = <<p - 1>>
                              /\ leaving.n_per = arriving.n_per
                              /\ SameMag(leaving.rate, arriving.rate)

\* the terms that reaction r of compartment c contributes to the derivative
\* function of species s
Contribution(c, r, s) ==
    DerivFuncBuilder(RxnSources(state.index, c, r, s),
                     RxnSinks(state.index, c, r, s), <<>>).terms

MaxCount == 2
StateVectors == [1..state.size -> 0..MaxCount]

\* C15: for a reaction whose reactant and product lists are identical the
\* terms it contributes to the derivative functions sum to zero over all
\* positions of the state, for every state vector Q and every kf, kr >= 0;
\* the terms are terms of the derivative functions that were built.
C15_NullNetSumsToZero ==
    (state.built /\ osys.built) =>
        \A k \in DOMAIN flat : \A j \in DOMAIN flat[k].reactions :
            LET c == flat[k]
                r == c.reactions[j]
                here == { p \in 1..state.size : state.compartment[p] = c.ID }
                all == Flatten([p \in 1..state.size |->
                           IF p \in here THEN Contribution(c, r, state.species[p])
                           ELSE <<>>])
            IN  (r.reactants = r.products /\ r.stoich_r = r.stoich_p)
                => /\ \A p \in here :
                        Range(Contribution(c, r, state.species[p]))
                            \subseteq Range(osys.dqdt[p].terms)
                   /\ \A Q \in StateVectors : \A na \in 0..3 :
                        deriv_func(all, Q, na).num = 0

\* a system has been built from a model with a reaction 2A -> 2A whose
\* forward and reverse rates are both positive
C15_Witness ==
    /\ state.built
    /\ osys.built
    /\ \E k \in DOMAIN flat : \E j \in DOMAIN flat[k].reactions :
           /\ flat[k].reactions[j] = RxnNull2A
           /\ Contribution(flat[k], RxnNull2A, "A") # <<>>

\* the minimum of an array and its first position, 0-based
np_min(tmp) == CHOOSE v \in Range(tmp) : \A w \in Range(tmp) : v <= w
np_argmin(tmp) ==
    (CHOOSE k \in DOMAIN tmp : tmp[k] = np_min(tmp) /\ \A j \in 1..(k - 1) : tmp[j] # np_min(tmp)) - 1

\* C16: each time a MinReporter is fired it records the pair (minimum over
\* the selected positions of the state vector, index of that minimum within
\* the selection).
C16_MinReporterRecordsMin ==
    [][ (ReporterReport /\ rep.reporter.cls = "MinReporter") =>
          LET tmp == Select(rep.arrays[rep.q_val], rep.reporter.selection_idxs)
              last == rep'.reporter.reports[Len(rep'.reporter.reports)]
          IN  last.report.value = <<np_min(tmp), np_argmin(tmp)>> ]_vars

\* C17: IsotropicConnection constructed with a scalar rate k, convertible to
\* 1/time, for every species of a non-empty species_rates dict completes
\* without error and stores the pair (k, k), in 1/s, for each species.
C17_IsotropicBroadcast ==
    ( /\ obj.pc \in {"returned", "raised"}
      /\ obj.fn = "Connection"
      /\ obj.args.cls = "Isotropic"
      /\ obj.args.keys # <<>>
      /\ \A s \in Range(obj.args.keys) :
             /\ obj.args.species_rates[s].ty = "quantity"
             /\ obj.args.species_rates[s].ldim = 0 )
    => /\ obj.pc = "returned"
       /\ \A s \in Range(obj.args.keys) :
              LET k == Ito(obj.args.species_rates[s], 0)
              IN  obj.self.species_rates[s] = <<k, k>>

\* C18: remove_connection(other) on a compartment without an edge to other
\* raises no error and leaves the connections as they were; when the edge
\* exists exactly that edge is removed and the others are kept, in order.
C18_TolerantRemove ==
    (obj.pc \in {"returned", "raised"} /\ obj.fn = "remove_connection") =>
        LET before == obj.args.self.connections
            conn_tag == make_ID(obj.args.other_compartment.array_ID,
                                obj.args.other_compartment.ID)
        IN  /\ obj.pc = "returned"
            /\ obj.self.connections = SelectSeq(before, LAMBDA e : e.label # conn_tag)

\* C19: constructing a Reaction with a kf (or kr) whose dimension is not
\* concentration^(1 - order) / time, order being the sum of the
\* stoichiometries of the reactant (or product) side, raises an error; a
\* rate of the right dimension is stored converted to the canonical unit of
\* that order.
C19_RateDimensionValidated ==
    (obj.pc \in {"returned", "raised"} /\ obj.fn = "Reaction") =>
        LET a == obj.args
            vf == validate_rate(a.kf, expected_unit_from_order(a.stoich_r))
            vr == validate_rate(a.kr, expected_unit_from_order(a.stoich_p))
        IN  /\ (a.kf.ty = "quantity" /\ vf.error # "") => obj.pc = "raised"
            /\ (a.kr.ty = "quantity" /\ vr.error # "") => obj.pc = "raised"
            /\ obj.pc = "returned" =>
                   /\ a.kf.ty = "quantity" => obj.self.kf = vf.q
                   /\ a.kr.ty = "quantity" => obj.self.kr = vr.q

\* the cells next to (i, j) in a grid of nx by ny cells, with the cells
\* across the box on the periodic axes
Neighbours4(nx, ny, periodic, k) ==
    { n \in (0..(nx - 1)) \X (0..(ny - 1)) :
        /\ n # k
        /\ \/ /\ n[2] = k[2]
              /\ \/ n[1] - k[1] \in {1, 0 - 1}
                 \/ periodic[1] /\ {n[1], k[1]} = {0, nx - 1}
           \/ /\ n[1] = k[1]
              /\ \/ n[2] - k[2] \in {1, 0 - 1}
                 \/ periodic[2] /\ {n[2], k[2]} = {0, ny - 1} }

\* C20: CompartmentArray2D built from x and y boundary lists completes
\* without error, holds exactly (len(x_pos)-1)*(len(y_pos)-1) compartments
\* keyed (i, j), each connected to its up to four nearest neighbours and to
\* the cells across the box on each periodic axis.
C20_Array2DBuilt ==
    (obj.pc \in {"returned", "raised"} /\ obj.fn = "CompartmentArray2D") =>
        LET nx == Len(obj.args.x_pos) - 1
            ny == Len(obj.args.y_pos) - 1
        IN  /\ obj.pc = "returned"
            /\ DOMAIN obj.self.compartments = (0..(nx - 1)) \X (0..(ny - 1))
            /\ \A k \in DOMAIN obj.self.compartments :
                   Range(obj.self.compartments[k].connections)
                       = Neighbours4(nx, ny, obj.args.periodic, k)

\* C21: CompartmentArray1D built from K+1 boundaries has exactly K
\* compartments indexed 0..K-1, compartment i having extent (b[i], b[i+1]);
\* compartment i has an edge to compartment j if and only if |i-j| = 1, or
\* the array is periodic and {i,j} = {0, K-1}; consequently every edge has
\* its reverse edge.
C21_Array1DBuilt ==
    (obj.pc = "returned" /\ obj.fn = "CompartmentArray1D") =>
        LET b == obj.args.positions
            K == Len(b) - 1
            cs == obj.self.compartments
        IN  /\ DOMAIN cs = 0..(K - 1)
            /\ obj.self.n_compartments = K
            /\ \A i \in DOMAIN cs :
                   /\ cs[i].ID = i
                   /\ cs[i].pos = << <<b[i + 1], b[i + 2]>> >>
                   /\ \A j \in DOMAIN cs :
                          j \in Range(cs[i].connections)
                              <=> \/ i - j \in {1, 0 - 1}
                                  \/ obj.args.periodic /\ {i, j} = {0, K - 1}
                   /\ Range(cs[i].connections) \subseteq DOMAIN cs
                   /\ \A j \in Range(cs[i].connections) :
                          i \in Range(cs[j].connections)

C21_Witness ==
    /\ obj.pc = "returned"
    /\ obj.fn = "CompartmentArray1D"
    /\ obj.args.periodic
    /\ Len(obj.args.positions) = 5
    /\ Range(obj.self.compartments[0].connections) = {1, 3}
    /\ Range(obj.self.compartments[2].connections) = {1, 3}

\* the cells of array a on the face named by side (or on the opposite
\* face), as keys (i, j, k)
OnFace(d, side, opposite) ==
    { key \in (0..(d[1] - 1)) \X (0..(d[2] - 1)) \X (0..(d[3] - 1)) :
        key[SideAxis(side)] =
            IF SidePlus(side) # opposite THEN d[SideAxis(side)] - 1 ELSE 0 }

\* C22: join3D wires every cell of the chosen face of this array to the
\* cell with the same in-face indices on the opposite face of the other
\* array, in both directions and touching no other compartment; when the
\* two faces differ in shape it raises an error and adds no edge to either
\* array.
C22_Join3DFaceMatched ==
    (obj.pc \in {"returned", "raised"} /\ obj.fn = "join3D"
        /\ obj.args.append_side # "w+") =>
        LET d1 == obj.args.self
            d2 == obj.args.other_array
            side == obj.args.append_side
            ax == SideAxis(side)
            n1 == d1[1] * d1[2] * d1[3]
            before == TwoArrays(d1, d2)
            Ix1(key) == CellIndex(d1[2], d1[3], key[1], key[2], key[3])
            Ix2(key) == n1 + CellIndex(d2[2], d2[3], key[1], key[2], key[3])
            Partner1(key) == [key EXCEPT ![ax] = IF SidePlus(side) THEN 0 ELSE d2[ax] - 1]
            Partner2(key) == [key EXCEPT ![ax] = IF SidePlus(side) THEN d1[ax] - 1 ELSE 0]
            New(c, other) ==
                Range(before[c].connections)
                    \cup { Entry(make_ID(before[other].array_ID, before[other].ID),
                                 Ref("model", other), obj.args.conn_type) }
            shapes_match ==
                \A a \in 1..3 : a # ax => d1[a] = d2[a]
        IN  IF shapes_match
            THEN /\ obj.pc = "returned"
                 /\ Len(obj.objs) = Len(before)
                 /\ \A key \in OnFace(d1, side, FALSE) :
                        Range(obj.objs[Ix1(key)].connections)
                            = New(Ix1(key), Ix2(Partner1(key)))
                 /\ \A key \in OnFace(d2, side, TRUE) :
                        Range(obj.objs[Ix2(key)].connections)
                            = New(Ix2(key), Ix1(Partner2(key)))
                 /\ \A c \in DOMAIN before :
                        (c \notin { Ix1(key) : key \in OnFace(d1, side, FALSE) }
                            \cup { Ix2(key) : key \in OnFace(d2, side, TRUE) })
                        => obj.objs[c] = before[c]
                 /\ \A c \in DOMAIN before :
                        obj.objs[c] = [before[c] EXCEPT
                                          !.connections = obj.objs[c].connections]
            ELSE /\ obj.pc = "raised"
                 /\ obj.error = "ValueError"
                 /\ obj.objs = before

C22_Witness ==
    /\ obj.pc = "returned"
    /\ obj.fn = "join3D"
    /\ obj.args.self = <<2, 2, 2>>
    /\ obj.args.other_array = <<1, 2, 2>>
    /\ obj.args.append_side = "x-"
    /\ \E e \in Range(obj.objs[1].connections) : e.label = "b-0_0_0" /\ e.conn = 2
    /\ \E e \in Range(obj.objs[9].connections) : e.label = "a-0_0_0" /\ e.conn = 2

\* all compartments of the reactions specification: the objects and the
\* copies the FlatModel holds
RxnHolders == obj.objs \o obj.flat.comps

IsPrefix(a, b) == Len(a) <= Len(b) /\ \A i \in DOMAIN a : b[i] = a[i]

\* a step leaves a reaction list as it was or appends reactions whose IDs
\* were not in it
OnlyNewIDs(before, after) ==
    /\ IsPrefix(before.reactions, after.reactions)
    /\ \A i \in DOMAIN after.reactions :
           i > Len(before.reactions) =>
               after.reactions[i].ID \notin
                   { before.reactions[j].ID : j \in DOMAIN before.reactions }

RxnListsDeduplicated ==
    obj.pc = "built" =>
        \A c \in DOMAIN RxnHolders :
            LET rs == RxnHolders[c].reactions
            IN  /\ \A i, j \in DOMAIN rs : rs[i].ID = rs[j].ID => i = j
                /\ RxnHolders[c].rxn_ids = { rs[i].ID : i \in DOMAIN rs }

\* C23: after any sequence of add_rxn_to_compartment, add_rxns_to_compartment,
\* add_rxn_to_array, FlatModel.add_rxn and copy operations, a compartment's
\* reaction list contains no two reactions with the same ID and its set of
\* reaction IDs equals the IDs in that list; adding a reaction whose ID is
\* already present leaves the list unchanged.
C23_ReactionsDeduplicated ==
    /\ []RxnListsDeduplicated
    /\ [][obj.pc = "built" =>
            /\ \A i \in DOMAIN obj.objs : OnlyNewIDs(obj.objs[i], obj'.objs[i])
            /\ \A k \in DOMAIN obj.flat.comps \cap DOMAIN obj'.flat.comps :
                   OnlyNewIDs(obj.flat.comps[k], obj'.flat.comps[k])]_vars

C23_Witness ==
    /\ obj.pc = "built"
    /\ obj.objs[1].reactions = <<RxnDegFast, RxnRev>>
    /\ obj.objs[2].reactions = <<RxnRev, RxnDeg>>
    /\ Len(obj.flat.comps) = 2
    /\ obj.flat.comps[1].ID = StrID("a-1")
    /\ obj.flat.comps[1].reactions = <<RxnRev, RxnDeg>>
    /\ obj.flat.comps[2].ID = StrID("a-0")
    /\ obj.flat.comps[2].reactions = <<RxnDegFast>>
    /\ obj.flat.error = "AssertionError"

\* the state positions named by a list of (index, number) tuples
Positions(tuples) == { tuples[d][1] : d \in DOMAIN tuples }

\* how many entries of a list equal x
Count(l, x) == Cardinality({ d \in DOMAIN l : l[d] = x })

\* C24 as stated: the dependency index built by _build_processes lists, for
\* each state position i, exactly the indices of the processes whose q_list
\* contains position i (no more and no fewer).
C24_DependencyIndexOfQList ==
    (gsys.built /\ gsys.error = "") =>
        \A pos \in DOMAIN gsys.process_update_list :
            Range(gsys.process_update_list[pos])
                = { i - 1 : i \in { k \in DOMAIN gsys.processes :
                                      pos - 1 \in Positions(gsys.processes[k].q_list) } }

\* C24 amended: position i lists the processes whose delta_list has an entry
\* for i, in increasing order and once per entry; every process whose q_list
\* contains i is among them.
C24_DependencyIndexOfDeltaList ==
    (gsys.built /\ gsys.error = "") =>
        /\ Len(gsys.process_update_list) = state.size
        /\ \A pos \in DOMAIN gsys.process_update_list :
               LET l == gsys.process_update_list[pos]
               IN  /\ \A a, b \in DOMAIN l : a < b => l[a] <= l[b]
                   /\ Range(l) \subseteq { i - 1 : i \in DOMAIN gsys.processes }
                   /\ \A i \in DOMAIN gsys.processes :
                          /\ Count(l, i - 1) =
                                 Cardinality({ d \in DOMAIN gsys.processes[i].delta_list :
                                     gsys.processes[i].delta_list[d][1] = pos - 1 })
                          /\ pos - 1 \in Positions(gsys.processes[i].q_list)
                                 => i - 1 \in Range(l)

\* a position lists a process that changes it without reading it
C24_Witness ==
    /\ gsys.built
    /\ gsys.error = ""
    /\ \E pos \in DOMAIN gsys.process_update_list, i \in DOMAIN gsys.processes :
          /\ i - 1 \in Range(gsys.process_update_list[pos])
          /\ pos - 1 \notin Positions(gsys.processes[i].q_list)
          /\ pos - 1 \in Positions(gsys.processes[i].delta_list)

\* a process lacks a reactant: some entry (idx, num) of its q_list has
\* y[idx] < num
Starved(p, y) == \E d \in DOMAIN p.q_list : y[p.q_list[d][1] + 1] < p.q_list[d][2]

\* C25: starting from a state of non-negative integers, every state the
\* Gillespie propagator reaches has Q[i] >= 0 at every position: a process
\* whose reactant count is below its multiplicity has propensity zero and is
\* never fired.
C25_CountsNonNegative ==
    /\ state # NoState => \A k \in DOMAIN state.q_val : state.q_val[k] >= 0
    /\ gil.pc \in {"loop", "returned", "raised"} =>
           /\ \A k \in DOMAIN gil.y : gil.y[k] >= 0
           /\ \A i \in DOMAIN gsys.processes :
                  Starved(gsys.processes[i], gil.y) => gil.r[i].num = 0

\* after a firing, a process of multiplicity two has one molecule left and
\* propensity zero while another process can still fire
C25_Witness ==
    /\ gil.pc = "loop"
    /\ gil.fired = 1
    /\ \E i, j \in DOMAIN gsys.processes :
          /\ \E d \in DOMAIN gsys.processes[i].q_list :
                 /\ gsys.processes[i].q_list[d][2] = 2
                 /\ gil.y[gsys.processes[i].q_list[d][1] + 1] = 1
          /\ gil.r[i].num = 0
          /\ gil.r[j].num > 0

\* the count of species s summed over the compartments
SpeciesCount(y, s) ==
    SumSeq([i \in DOMAIN y |-> IF state.species[i] = s THEN y[i] ELSE 0])

TransportOnly == \A k \in DOMAIN flat : flat[k].reactions = <<>>

\* C26: in a Gillespie system whose processes are all transport processes
\* between non-reservoir compartments, the sum of a species' counts over all
\* compartments is the same in every reachable state: each firing moves
\* exactly one molecule from the owning compartment's position to the
\* neighbour's position.
C26_TransportConservesCounts ==
    /\ [](TransportOnly /\ gsys.built /\ gil.pc \in {"loop", "returned"} =>
            \A s \in Range(state.species) :
                SpeciesCount(gil.y, s) = SpeciesCount(gil.y0, s))
    /\ [][TransportOnly /\ gsys.built /\ gsys.qset /\ gsys'.qset =>
            /\ \A s \in Range(state.species) :
                   SpeciesCount(state'.q_val, s) = SpeciesCount(state.q_val, s)
            /\ (gil.pc = "loop" /\ gil'.pc = "loop") =>
                   \E a, b \in DOMAIN gil.y :
                       /\ a # b
                       /\ state.species[a] = state.species[b]
                       /\ state.compartment[a] # state.compartment[b]
                       /\ gil'.y = [gil.y EXCEPT ![a] = @ - 1, ![b] = @ + 1]]_vars

\* a molecule of B has moved to the other compartment while A stayed
C26_Witness ==
    /\ TransportOnly
    /\ gil.pc = "loop"
    /\ gil.fired = 1
    /\ gil.seg = 2
    /\ \E a, b \in DOMAIN gil.y :
          /\ state.species[a] = "B"
          /\ state.species[b] = "B"
          /\ gil.y0[a] = 2 /\ gil.y[a] = 1
          /\ gil.y0[b] = 0 /\ gil.y[b] = 1

\* C27: whenever Gillespie(processes, update_list, (t0, t1), y0) returns, the
\* returned time is >= t1 and the returned state includes the one firing
\* whose dwell time carried the clock to or past t1 (the state change of a
\* firing is applied before its dwell time is added); the input vector y0
\* itself is not modified.
C27_ReturnsAtOrPastEnd ==
    /\ [](gil.pc = "returned" => gil.t >= gil.t1 /\ state.q_val = gil.y)
    /\ [](gil.pc = "loop" => state.q_val = gil.y0)
    /\ [][gil.pc = "loop" /\ gil'.pc = "loop" =>
            /\ gil.t < gil.t1
            /\ gil'.t > gil.t
            /\ \E i \in DOMAIN gsys.processes :
                   /\ gil.r[i].num > 0
                   /\ gil'.y = ApplyDeltas(gil.y, gsys.processes[i].delta_list)]_vars
    /\ [][gil.pc = "loop" /\ gil'.pc = "returned" =>
            /\ gil'.y = gil.y
            /\ gil'.t = gil.t
            /\ gil'.y0 = gil.y0
            /\ state.q_val = gil.y0
            /\ state'.q_val = gil.y]_vars

\* the call returned past the end of the interval with a changed state
C27_Witness ==
    /\ gil.pc = "returned"
    /\ gil.fired = 1
    /\ gil.t > gil.t1
    /\ gil.y # gil.y0

\* the state values a record of an AllReporter shows when it is read
Payload(r, record) == r.arrays[record.report.array]

\* C28: a record stored by AllReporter at a checkpoint keeps the state values
\* of that checkpoint: later segments of the same run, in the ODE and in the
\* Gillespie backend, do not change the payload of any earlier record.
C28_AllReporterRecordsKept ==
    [][ rep.reporter.cls = "AllReporter" =>
          /\ ReporterReport =>
                 Payload(rep', rep'.reporter.reports[Len(rep'.reporter.reports)])
                     = rep.arrays[rep.q_val]
          /\ (ReporterPropagate \/ ReporterReport) =>
                 \A k \in DOMAIN rep.reporter.reports :
                     Payload(rep', rep'.reporter.reports[k])
                         = Payload(rep, rep.reporter.reports[k]) ]_vars

\* two checkpoints of a run with different state values, each record
\* showing the values of its own checkpoint
C28_Witness ==
    /\ rep.pc = "attached"
    /\ rep.reporter.cls = "AllReporter"
    /\ Len(rep.reporter.reports) = 2
    /\ rep.reporter.reports[1].report.array = 1
    /\ rep.reporter.reports[2].report.array = 2
    /\ rep.q_val = 2
    /\ rep.arrays[1] # rep.arrays[2]

\* the items of a compartment's connections dict, by neighbour tag
Items(c) == { c.connections[e] : e \in DOMAIN c.connections }

\* C29: Model.flatten() leaves the Model it is called on unchanged: after it
\* returns, every compartment of the Model (stand-alone or array member) has
\* the same reactions and, for each neighbour tag, the same (neighbour,
\* connection) entry as before the call, also when the model contains Ficks
\* edges.
C29_FlattenLeavesModel ==
    fl.pc = "returned" =>
        \A ix \in ModelComps(Before) :
            /\ model.objs[ix].reactions = Before.objs[ix].reactions
            /\ Items(model.objs[ix]) = Items(Before.objs[ix])

\* C30: when Model.add_array raises an error (incompatible periodicity,
\* length mismatch along a periodic axis, or duplicate array id), the model
\* is left as it was before the call: its set of arrays, its periodicity
\* flags and its box length on every axis are unchanged, and so is the box
\* length of every array added earlier.
C30_AddArrayRaisesCleanly ==
    (obj.pc = "raised" /\ obj.fn = "add_array") =>
        LET before == ModelOfFirst(obj.args)
        IN  /\ obj.self.arrays = before.self.arrays
            /\ obj.self.periodic = before.self.periodic
            /\ obj.self.box_len = before.self.box_len
            /\ obj.lists[obj.self.box_len.ix] = before.lists[before.self.box_len.ix]
            /\ \A a \in DOMAIN before.self.arrays :
                   obj.lists[before.self.arrays[a].box_len.ix]
                       = before.lists[before.self.arrays[a].box_len.ix]

====
